---- MODULE Spec2Model ----
(***************************************************************************)
(* A verification model of three parts of the c2rust sources:              *)
(*                                                                         *)
(*   - WithStmts and its combinators (ast-importer/src/translator.rs),     *)
(*     under SpecWithStmts;                                                *)
(*   - do_split_variants (rust-refactor/src/transform/ownership.rs),       *)
(*     under SpecSplit;                                                    *)
(*   - the expression translator Translation::convert_expr and its         *)
(*     helpers (ast-importer/src/translator.rs), under SpecTranslate.      *)
(*                                                                         *)
(* Each part has its own variables; a specification leaves the variables   *)
(* of the other parts at their idle values.                                *)
(***************************************************************************)
EXTENDS Integers, Sequences, FiniteSets, TLC

VARIABLES
    \* WithStmts part
    w,              \* the WithStmts value being composed: [stmts, val]
    log,            \* history: the statements in the order the callbacks made them
    expect,         \* history: the value the last callback returned
    \* variant splitter part
    fns,            \* the crate: the fn items in crate order
    ana,            \* the analysis result: ana.fns, by fn index
    span_fref_idx,  \* HashMap span -> func ref index within the caller
    handled_spans,  \* HashSet of spans handled while splitting
    krate,          \* the fn items after fold_fns_multi / the second fold
    pc,             \* position inside do_split_variants
    cur,            \* index of the next item the current fold visits
    \* translator part
    tr_use,         \* the ExprUse convert_expr is called with
    tr_prog,        \* the C expressions of the expression statements translated
    tr_x0,          \* the value of x before the translated statements run
    tr_out,         \* what convert_expr(tr_use, tr_prog[1]) returned
    tr_body,        \* the statements convert_stmt made of tr_prog
    tr_env,         \* the variables after the statements of tr_body ran
    tr_pc,          \* "src", "expr", "body" or "ran"
    \* translate part
    tu_decls,       \* ast_context.c_decls_top, a list of CDeclIds
    tu_renamer,     \* t.renamer: the top-level names and the fresh-name count
    tu_items,       \* t.items
    tu_out,         \* what to_string printed, in order
    tu_pc,          \* "names", "decls", "done" or "panicked"
    \* builtin lowering part
    bi_name,        \* the name of the builtin function called
    bi_args,        \* the argument expressions of the call
    bi_used,        \* ctx.is_used(): the call's value is used
    bi_out,         \* what convert_builtin returned
    bi_pc,          \* "call" or "done"
    \* runtime location table part
    ml_path,        \* MIR_LOC_FILE_PATH: "None" or the path
    ml_locs,        \* MIR_LOCS: the lazy static, not yet initialized, loaded or poisoned
    ml_index,       \* the index of the get that is under way
    ml_pc,          \* "ready", or "checked" once a get has found the path set
    ml_log,         \* history: the calls made and what each get returned
    \* lexical scopes part
    sc_src,         \* the function declaration or the statement translated
    sc_renamer,     \* the renamer before the translation
    sc_out,         \* the statements or item made, and the renamer afterwards
    sc_pc,          \* "function" or "stmt" before, "done" after
    \* instrumentation plugin part
    pl_items,       \* the items of the crate the folder has not reached yet
    pl_hooked,      \* self.hooked_functions
    pl_out,         \* history: each fn item folded, with the hooked set it was folded under
    \* ownership annotation part
    an_src,         \* the crate before ownership_annotate
    an_ana,         \* the analysis result, the same for every run
    an_krate,       \* the crate
    an_once,        \* history: the crate after the first run
    an_runs         \* how many times ownership_annotate has run

wsVars == <<w, log, expect>>
spVars == <<fns, ana, span_fref_idx, handled_spans, krate, pc, cur>>
trVars == <<tr_use, tr_prog, tr_x0, tr_out, tr_body, tr_env, tr_pc>>
tuVars == <<tu_decls, tu_renamer, tu_items, tu_out, tu_pc>>
biVars == <<bi_name, bi_args, bi_used, bi_out, bi_pc>>
\* the parts that follow the translator's
mlVars == <<ml_path, ml_locs, ml_index, ml_pc, ml_log>>
scVars == <<sc_src, sc_renamer, sc_out, sc_pc>>
plVars == <<pl_items, pl_hooked, pl_out>>
anVars == <<an_src, an_ana, an_krate, an_once, an_runs>>
lateVars == <<plVars, anVars>>
otherVars == <<biVars, mlVars, scVars, lateVars>>
vars == <<wsVars, spVars, trVars, tuVars, otherVars>>

\* ------------------------------------------------------------------------
\* Helpers on sequences
\* ------------------------------------------------------------------------

Range(s) == {s[n] : n \in 1..Len(s)}

RECURSIVE Concat(_)
\* The concatenation of a sequence of sequences.
Concat(ss) == IF ss = <<>> THEN <<>> ELSE Head(ss) \o Concat(Tail(ss))

\* The element of a one-element set. A value is bound to a name, once, by
\* Only({ ... name ... : name \in {value} }).
Only(S) == CHOOSE x \in S : TRUE

RECURSIVE SeqsUpTo(_, _)
\* All sequences over S of length at most n.
SeqsUpTo(S, n) ==
    IF n = 0 THEN {<<>>}
    ELSE LET shorter == SeqsUpTo(S, n - 1)
         IN shorter \cup {Append(s, x) : s \in {t \in shorter : Len(t) = n - 1}, x \in S}

\* ------------------------------------------------------------------------
\* Bounds
\* ------------------------------------------------------------------------

MaxStmts == 4       \* longest statement list composed under SpecWithStmts
NumVals == 3        \* values a WithStmts carries under SpecWithStmts: 0..NumVals-1
MaxRefs == 2        \* most call sites in one fn body under SpecSplit
MaxMonos == 2       \* most monos of one fn under SpecSplit
UIntBits == 4       \* width of the unsigned integer type under SpecTranslate
MaxX0 == 5          \* x starts at MaxX0 - 1 or MaxX0 under SpecTranslate
MaxElems == 2       \* pointers point at elements 0..MaxElems of 0..MaxElems bytes each
MaxArgs == 3       \* a builtin call has at most MaxArgs arguments
MaxCalls == 5      \* the runtime makes at most MaxCalls calls of set_file and get
MaxRuns == 2        \* ownership_annotate is run at most MaxRuns times on a crate
MaxItems == 3       \* a crate handed to the plugin has at most MaxItems items
MaxDecls == 3       \* a translation unit has at most MaxDecls top-level declarations

\* ========================================================================
\* Part 1: WithStmts<T>
\* ========================================================================

WithStmts(stmts, val) == [stmts |-> stmts, val |-> val]

\* WithStmts::new
new(val) == WithStmts(<<>>, val)

\* A closure handed to and_then is <<"cb", k>>, which yields k-1 statements
\* naming k, their position and the value it was given, and a new value; or
\* <<"nested", k1, k2>>, the closure |v| cb(k1)(v).and_then(cb(k2)), as
\* convert_expr nests them. A closure handed to map is a number k.
CallbackStmts(k, v) == [n \in 1..(k - 1) |-> <<k, n, v>>]
CallbackVal(k, v) == (2 * v + k) % NumVals
Callback(k, v) == WithStmts(CallbackStmts(k, v), CallbackVal(k, v))
Callbacks == 1..3

RECURSIVE Apply(_, _)

and_then_reversed(self, f) ==
    LET next == Apply(f, self.val)
    IN WithStmts(next.stmts \o self.stmts, next.val)

\* WithStmts::and_then
and_then(self, f) ==
    LET next == Apply(f, self.val)
        stmts == self.stmts \o next.stmts
    IN WithStmts(stmts, next.val)

\* WithStmts::map
map(self, f) == WithStmts(self.stmts, CallbackVal(f, self.val))

\* The call f(self.val) of a closure.
Apply(f, v) ==
    IF f[1] = "cb" THEN Callback(f[2], v)
    ELSE and_then(Callback(f[2], v), <<"cb", f[3]>>)

InitWithStmts ==
    /\ w \in {new(v) : v \in 0..(NumVals - 1)}
    /\ log = <<>>
    /\ expect = w.val

\* w.and_then(|v| Callback(k, v))
AndThen ==
    \E k \in Callbacks :
        /\ Len(w.stmts) + Len(CallbackStmts(k, w.val)) <= MaxStmts
        /\ w' = and_then(w, <<"cb", k>>)
        /\ log' = log \o CallbackStmts(k, w.val)
        /\ expect' = CallbackVal(k, w.val)
        /\ UNCHANGED <<spVars, trVars, tuVars, otherVars>>

\* w.and_then(|v| Callback(k1, v).and_then(|u| Callback(k2, u)))
AndThenNested ==
    \E k1 \in Callbacks, k2 \in Callbacks :
        LET mid == CallbackVal(k1, w.val)
            added == CallbackStmts(k1, w.val) \o CallbackStmts(k2, mid)
        IN /\ Len(w.stmts) + Len(added) <= MaxStmts
           /\ w' = and_then(w, <<"nested", k1, k2>>)
           /\ log' = log \o added
           /\ expect' = CallbackVal(k2, mid)
           /\ UNCHANGED <<spVars, trVars, tuVars, otherVars>>

\* w.map(|v| CallbackVal(k, v))
Map ==
    \E k \in Callbacks :
        /\ w' = map(w, k)
        /\ log' = log
        /\ expect' = CallbackVal(k, w.val)
        /\ UNCHANGED <<spVars, trVars, tuVars, otherVars>>

\* ========================================================================
\* Part 2: do_split_variants
\* ========================================================================

\* The crate's fn items, by index, and their identifiers.
FnNames == <<"f", "g">>
NumFns == Len(FnNames)
FnIds == 1..NumFns

\* MonoResult::suffix of the k-th mono of a fn (k from 0): the first mono is
\* the unsuffixed one, the others carry distinct suffixes.
MonoSuffixes == <<"", "mut", "take", "own">>
MonoSuffix(k) == MonoSuffixes[k + 1]

\* A source span: the call site r (from 0) of fn i has a span of its own;
\* OtherSpan(i) is the span of an expression of fn i that is no func ref.
RefSpan(i, r) == <<i, r + 1>>
OtherSpan(i) == <<i, 0>>

\* An expression node of a fn body: its span, the identifier of its last path
\* segment, and (history) how many times apply_suffix has been applied to it.
ExprNode(span, ident) == [span |-> span, ident |-> ident, applied |-> 0]

\* The analysis result of one fn: its func refs (callee, span) and its monos.
\* callee_mono_idxs of mono m at ref r is drawn by a seed, within the callee's
\* mono list.
FnResult(i, callees, nmonos, seed, nmonosOf) ==
    [ func_refs |-> [r \in 1..Len(callees) |->
                        [def_id |-> callees[r], span |-> RefSpan(i, r - 1)]],
      monos |-> [m \in 1..nmonos |->
                    [ suffix |-> MonoSuffix(m - 1),
                      callee_mono_idxs |-> [r \in 1..Len(callees) |->
                            (m + r + seed) % nmonosOf[callees[r]]] ]] ]

\* The body of an analysed fn: one expression that is no func ref, and one
\* path expression per func ref, naming the callee.
FnBody(i, callees) ==
    <<ExprNode(OtherSpan(i), "x")>> \o
    [r \in 1..Len(callees) |-> ExprNode(RefSpan(i, r - 1), FnNames[callees[r]])]

\* A fn item (a FnLike): orig is the index of the fn the item came from,
\* mono the index of the mono it was cloned for (-1: not a clone).
FnItem(i, marked, body) ==
    [orig |-> i, ident |-> FnNames[i], marked |-> marked, body |-> body, mono |-> -1]

NoAnalysis == [func_refs |-> <<>>, monos |-> <<>>]

InitSplit ==
    \E marked \in [FnIds -> BOOLEAN],
       has_ana \in [FnIds -> BOOLEAN],
       nmonos \in [FnIds -> 1..MaxMonos],
       seed \in [FnIds -> 0..(MaxMonos - 1)],
       callees \in [FnIds -> SeqsUpTo(FnIds, MaxRefs)] :
        \* a fn without an analysis result has no body (a foreign fn)
        /\ \A i \in FnIds : ~has_ana[i] =>
                /\ callees[i] = <<>> /\ nmonos[i] = 1 /\ seed[i] = 0
        /\ \A i \in FnIds : callees[i] = <<>> => seed[i] = 0
        /\ fns = [i \in FnIds |->
                    FnItem(i, marked[i],
                           IF has_ana[i] THEN FnBody(i, callees[i]) ELSE <<>>)]
        /\ ana = [i \in FnIds |->
                    IF has_ana[i]
                    THEN [has |-> TRUE] @@ FnResult(i, callees[i], nmonos[i], seed[i], nmonos)
                    ELSE [has |-> FALSE] @@ NoAnalysis]
        /\ span_fref_idx = [s \in {} |-> 0]
        /\ handled_spans = {}
        /\ krate = <<>>
        /\ pc = "start"
        /\ cur = 1

\* Whether the fn behind a def id carries the mark `label` (st.marked).
Marked(def_id) == fns[def_id].marked

\* The loop of lines 275-282: every func ref of every analysed fn, by span.
AllFuncRefSpans ==
    {ana[i].func_refs[r].span : i \in {j \in FnIds : ana[j].has},
                                r \in 1..MaxRefs} \ {<<>>}

SpanFrefIdx ==
    LET refs == {<<i, r>> \in FnIds \X (1..MaxRefs) :
                    ana[i].has /\ r <= Len(ana[i].func_refs)}
    IN [s \in {ana[p[1]].func_refs[p[2]].span : p \in refs} |->
            (CHOOSE p \in refs : ana[p[1]].func_refs[p[2]].span = s)[2] - 1]

mono_name_NoSeparator(base, suffix) == base \o suffix

\* mono_name
mono_name(base, suffix) ==
    IF Len(suffix) = 0 THEN base ELSE base \o "_" \o suffix

\* apply_suffix: the last path segment of the expression gets the mono name.
apply_suffix(suffix, e) ==
    [e EXCEPT !.ident = mono_name(e.ident, suffix), !.applied = @ + 1]

\* The spans the closure of the first fold inserts into handled_spans while it
\* maps the body of one clone (line 321).
HandledIn(body) ==
    {body[n].span : n \in {m \in 1..Len(body) : body[m].span \in DOMAIN span_fref_idx}}

FirstPassExpr_NoMarkCheck(e, fr, mr) ==
    IF e.span \notin DOMAIN span_fref_idx THEN e
    ELSE LET fref_idx == span_fref_idx[e.span]
             callee == fr.func_refs[fref_idx + 1].def_id
             callee_mono_idx == mr.callee_mono_idxs[fref_idx + 1]
         IN IF ~ana[callee].has THEN e
            ELSE apply_suffix(ana[callee].monos[callee_mono_idx + 1].suffix, e)

\* The closure of fold_nodes inside a clone (lines 318-335), for mono mr of
\* the fn whose analysis result is fr.
FirstPassExpr(e, fr, mr) ==
    IF e.span \notin DOMAIN span_fref_idx THEN e
    ELSE LET fref_idx == span_fref_idx[e.span]
             callee == fr.func_refs[fref_idx + 1].def_id
             callee_marked == Marked(callee)
         IN IF ~callee_marked THEN e
            ELSE LET callee_mono_idx == mr.callee_mono_idxs[fref_idx + 1]
                     callee_mono == ana[callee].monos[callee_mono_idx + 1]
                 IN apply_suffix(callee_mono.suffix, e)

\* `ana.fns[&callee]` of line 332 panics when the callee has no analysis result.
FirstPassPanics(fl, fr) ==
    /\ Len(fr.monos) > 0
    /\ \E n \in 1..Len(fl.body) :
        /\ fl.body[n].span \in DOMAIN span_fref_idx
        /\ LET callee == fr.func_refs[span_fref_idx[fl.body[n].span] + 1].def_id
           IN Marked(callee) /\ ~ana[callee].has

CloneFn_NoSeparator(fl, fr, mono_idx) ==
    LET mr == fr.monos[mono_idx + 1]
    IN [fl EXCEPT
            !.ident = fl.ident \o mr.suffix,
            !.mono = mono_idx,
            !.body = [n \in 1..Len(fl.body) |-> FirstPassExpr(fl.body[n], fr, mr)]]

\* One clone of a marked fn (lines 303-337): renamed when the mono's suffix is
\* not empty, its body's func refs rewritten.
CloneFn(fl, fr, mono_idx) ==
    LET mr == fr.monos[mono_idx + 1]
    IN [fl EXCEPT
            !.ident = IF Len(mr.suffix) > 0 THEN fl.ident \o "_" \o mr.suffix ELSE @,
            !.mono = mono_idx,
            !.body = [n \in 1..Len(fl.body) |-> FirstPassExpr(fl.body[n], fr, mr)]]

\* The closure handed to fold_fns_multi (lines 290-339): the items that
\* replace the fn item fl.
SplitFn(fl) ==
    IF ~fl.marked THEN <<fl>>
    ELSE IF ~ana[fl.orig].has THEN <<fl>>
    ELSE LET fr == ana[fl.orig]
         IN [m \in 1..Len(fr.monos) |-> CloneFn(fl, fr, m - 1)]

HandledBy_Nothing(fl) == {}

\* The spans SplitFn(fl) leaves in handled_spans.
HandledBy(fl) ==
    IF fl.marked /\ ana[fl.orig].has /\ Len(ana[fl.orig].monos) > 0
    THEN HandledIn(fl.body)
    ELSE {}

SecondPassExpr_CalleeFirstMono(e, item) ==
    IF e.span \notin DOMAIN span_fref_idx THEN e
    ELSE IF e.span \in handled_spans THEN e
    ELSE LET fref_idx == span_fref_idx[e.span]
             dest == ana[item.orig].func_refs[fref_idx + 1].def_id
         IN IF ~Marked(dest) THEN e
            ELSE apply_suffix(ana[dest].monos[1].suffix, e)

\* The closure of the whole-crate fold_nodes (lines 341-370); item is the fn
\* item the expression lies in, item.orig the fn get_parent resolves to.
SecondPassExpr(e, item) ==
    IF e.span \notin DOMAIN span_fref_idx THEN e
    ELSE IF e.span \in handled_spans THEN e
    ELSE LET fref_idx == span_fref_idx[e.span]
             src_fr == ana[item.orig]
             dest == src_fr.func_refs[fref_idx + 1].def_id
             dest_marked == Marked(dest)
         IN IF ~dest_marked THEN e
            ELSE LET src_mr == src_fr.monos[1]
                     dest_mono_idx == src_mr.callee_mono_idxs[fref_idx + 1]
                     dest_mono == ana[dest].monos[dest_mono_idx + 1]
                 IN apply_suffix(dest_mono.suffix, e)

\* `ana.fns[&dest]` of line 367 panics when dest has no analysis result.
SecondPassPanics(item) ==
    \E n \in 1..Len(item.body) :
        LET e == item.body[n]
        IN /\ e.span \in DOMAIN span_fref_idx
           /\ e.span \notin handled_spans
           /\ LET dest == ana[item.orig].func_refs[span_fref_idx[e.span] + 1].def_id
              IN Marked(dest) /\ ~ana[dest].has

\* Lines 275-284: build span_fref_idx, start with no handled span.
BuildSpanMap ==
    /\ pc = "start"
    /\ span_fref_idx' = SpanFrefIdx
    /\ handled_spans' = {}
    /\ krate' = <<>>
    /\ cur' = 1
    /\ pc' = "fold_fns"
    /\ UNCHANGED <<fns, ana, wsVars, trVars, tuVars, otherVars>>

\* fold_fns_multi visits the next fn item of the crate.
FoldFn ==
    /\ pc = "fold_fns"
    /\ cur <= NumFns
    /\ LET fl == fns[cur]
       IN IF fl.marked /\ ana[fl.orig].has /\ FirstPassPanics(fl, ana[fl.orig])
          THEN /\ pc' = "panic"
               /\ UNCHANGED <<krate, handled_spans, cur>>
          ELSE /\ krate' = krate \o SplitFn(fl)
               /\ handled_spans' = handled_spans \cup HandledBy(fl)
               /\ cur' = IF cur = NumFns THEN 1 ELSE cur + 1
               /\ pc' = IF cur = NumFns THEN "fold_nodes" ELSE "fold_fns"
    /\ UNCHANGED <<fns, ana, span_fref_idx, wsVars, trVars, tuVars, otherVars>>

\* The second fold_nodes visits the expressions of the next fn item.
FoldNodes ==
    /\ pc = "fold_nodes"
    /\ cur <= Len(krate)
    /\ LET item == krate[cur]
       IN IF SecondPassPanics(item)
          THEN /\ pc' = "panic"
               /\ UNCHANGED <<krate, cur>>
          ELSE /\ krate' = [krate EXCEPT ![cur].body =
                                [n \in 1..Len(item.body) |->
                                    SecondPassExpr(item.body[n], item)]]
               /\ cur' = cur + 1
               /\ pc' = IF cur = Len(krate) THEN "done" ELSE "fold_nodes"
    /\ UNCHANGED <<fns, ana, span_fref_idx, handled_spans, wsVars, trVars, tuVars, otherVars>>

\* ========================================================================
\* Part 3: the expression translator
\* ========================================================================

\* ---- the Rust syntax tree the translator emits (make_ast's builder) ----

path_expr(name) == [k |-> "Path", name |-> name]
lit_expr(val) == [k |-> "Lit", val |-> val]
str_lit_expr(s) == [k |-> "LitStr", s |-> s]
call_expr(f, args) == [k |-> "Call", f |-> f, args |-> args]
method_call_expr(recv, name, args) ==
    [k |-> "MethodCall", recv |-> recv, name |-> name, args |-> args]
unary_expr(op, e) == [k |-> "Unary", op |-> op, e |-> e]
binary_expr(op, l, r) == [k |-> "Binary", op |-> op, l |-> l, r |-> r]
assign_expr(l, r) == [k |-> "Assign", l |-> l, r |-> r]
assign_op_expr(op, l, r) == [k |-> "AssignOp", op |-> op, l |-> l, r |-> r]
cast_expr(e, ty) == [k |-> "Cast", e |-> e, ty |-> ty]
addr_of_expr(mutbl, e) == [k |-> "AddrOf", mutbl |-> mutbl, e |-> e]
index_expr(e, i) == [k |-> "Index", e |-> e, i |-> i]
paren_expr(e) == [k |-> "Paren", e |-> e]
array_expr(vals) == [k |-> "Array", vals |-> vals]
field(name, e) == [name |-> name, e |-> e]
struct_expr(path, fields) == [k |-> "Struct", path |-> path, fields |-> fields]
block_expr(stmts) == [k |-> "Block", stmts |-> stmts]
\* `if cond { then } else els`: then the statements of a block, els an
\* expression or "None"
ifte_expr(cond, then, els) == [k |-> "If", cond |-> cond, then |-> then, els |-> els]
return_expr(e) == [k |-> "Ret", e |-> e]
while_expr(cond, body) == [k |-> "While", cond |-> cond, body |-> body]
loop_expr(body) == [k |-> "Loop", body |-> body]
break_expr == [k |-> "Break"]
static_item(name, ty, init) == [k |-> "StaticItem", name |-> name, ty |-> ty, init |-> init]
item_stmt(item) == [k |-> "Item", item |-> item]
\* `let <name> = init;`, or with by_ref `let ref mut <name> = init;`
local_stmt(by_ref, name, init) ==
    [k |-> "Local", by_ref |-> by_ref, name |-> name, init |-> init]
\* `let (<names>) = init;`
local_tuple_stmt(names, init) == [k |-> "LocalTuple", names |-> names, init |-> init]
\* a path of several segments, each a string of characters
path_segments_expr(segments) == [k |-> "PathSegs", segments |-> segments]
expr_stmt(e) == [k |-> "Expr", e |-> e]
semi_stmt(e) == [k |-> "Semi", e |-> e]
path_ty(name) == [k |-> "PathTy", name |-> name]
ptr_ty(mutbl, ty) == [k |-> "PtrTy", mutbl |-> mutbl, ty |-> ty]

\* The direct sub-nodes of a node of the emitted tree, in source order.
Kids(e) ==
    CASE e.k \in {"Path", "PathSegs", "Lit", "LitStr", "LitFloat", "Mac", "Break", "None", "Item"} -> <<>>
      [] e.k = "Call" -> <<e.f>> \o e.args
      [] e.k = "MethodCall" -> <<e.recv>> \o e.args
      [] e.k \in {"Unary", "Cast", "AddrOf", "Paren", "Expr", "Semi"} -> <<e.e>>
      [] e.k \in {"Binary", "Assign", "AssignOp"} -> <<e.l, e.r>>
      [] e.k = "Index" -> <<e.e, e.i>>
      [] e.k = "Array" -> e.vals
      [] e.k = "Struct" -> [j \in 1..Len(e.fields) |-> e.fields[j].e]
      [] e.k \in {"Local", "LocalTuple"} -> <<e.init>>
      [] e.k = "AtomicOp" -> <<e.dst, e.src>>
      [] e.k = "While" -> <<e.cond>> \o e.body
      [] e.k = "Loop" -> e.body
      [] e.k = "Block" -> e.stmts
      [] e.k = "If" -> <<e.cond>> \o e.then \o (IF e.els.k = "None" THEN <<>> ELSE <<e.els>>)
      [] e.k = "Ret" -> <<e.e>>

RECURSIVE Nodes(_)
\* Every node of an emitted tree, in source order.
Nodes(e) == <<e>> \o Concat([j \in 1..Len(Kids(e)) |-> Nodes(Kids(e)[j])])

\* Every node of a list of emitted trees.
NodesOfAll(es) == Concat([j \in 1..Len(es) |-> Nodes(es[j])])

\* ---- the typed C AST the translator reads (c_ast) ----

\* CQualTypeId
QualType(ctype, is_volatile) == [ctype |-> ctype, is_volatile |-> is_volatile]

\* The type table of the translation unit: CTypeId -> CTypeKind.
CTypes ==
    [ int    |-> [k |-> "Int"],
      uint   |-> [k |-> "UInt"],
      long   |-> [k |-> "Long"],
      double |-> [k |-> "Double"],
      u32    |-> [k |-> "Typedef", to |-> "uint"],
      p_int  |-> [k |-> "Pointer", pointee |-> QualType("int", FALSE)],
      p_vint |-> [k |-> "Pointer", pointee |-> QualType("int", TRUE)],
      arr    |-> [k |-> "ConstantArray", elt |-> "int", size |-> 2],
      s3     |-> [k |-> "Struct", struct_id |-> "s3"],
      fn     |-> [k |-> "Function"],
      fn_p   |-> [k |-> "Function"],
      p_fn   |-> [k |-> "Pointer", pointee |-> QualType("fn", FALSE)],
      p_fn_p |-> [k |-> "Pointer", pointee |-> QualType("fn_p", FALSE)] ]

RECURSIVE resolve_type(_)
\* TypedAstContext::resolve_type: follows typedefs to the underlying kind.
resolve_type(ctype) ==
    IF CTypes[ctype].k = "Typedef" THEN resolve_type(CTypes[ctype].to) ELSE CTypes[ctype]

\* TypedAstContext::index on a CTypeId: the type node as declared.
index_type(ctype) == CTypes[ctype]

is_pointer(kind) == kind.k = "Pointer"
is_unsigned_integral_type(kind) == kind.k = "UInt"
is_floating_type(kind) == kind.k = "Double"
is_integral_type(kind) == kind.k \in {"Int", "UInt", "Long"}

\* The struct declarations of the translation unit, CRecordId -> CDeclKind::Struct
\* with its CDeclKind::Field declarations:
\*   struct s3 { int i; double d; int *q; };
Records ==
    [ s3 |-> [name |-> "s3",
              fields |-> << [name |-> "i", typ |-> QualType("int", FALSE)],
                            [name |-> "d", typ |-> QualType("double", FALSE)],
                            [name |-> "q", typ |-> QualType("p_int", FALSE)] >>] ]

\* CExprKind
DeclRef(qty, name) == [k |-> "DeclRef", qty |-> qty, name |-> name]
Literal(val) == [k |-> "Literal", qty |-> QualType("int", FALSE), val |-> val]
ImplicitCast(qty, e, kind) == [k |-> "ImplicitCast", qty |-> qty, e |-> e, kind |-> kind]
Unary(qty, op, arg) == [k |-> "Unary", qty |-> qty, op |-> op, arg |-> arg]
Binary(qty, op, lhs, rhs) == [k |-> "Binary", qty |-> qty, op |-> op, lhs |-> lhs, rhs |-> rhs]
ArraySubscript(qty, lhs, rhs) == [k |-> "ArraySubscript", qty |-> qty, lhs |-> lhs, rhs |-> rhs]
Call(qty, func, args) == [k |-> "Call", qty |-> qty, func |-> func, args |-> args]
Conditional(qty, cond, lhs, rhs) ==
    [k |-> "Conditional", qty |-> qty, cond |-> cond, lhs |-> lhs, rhs |-> rhs]
InitList(qty, ids) == [k |-> "InitList", qty |-> qty, ids |-> ids]
\* CStmtKind::Return of an expression
Return(e) == [k |-> "Return", e |-> e]

get_qual_type(e) == e.qty
get_type(e) == e.qty.ctype

AssignOps ==
    {"AssignAdd", "AssignSubtract", "AssignMultiply", "AssignDivide", "AssignModulus",
     "AssignBitXor", "AssignShiftLeft", "AssignShiftRight", "AssignBitOr", "AssignBitAnd"}

\* BinOp::underlying_assignment: the operator a compound assignment applies
\* ("None" for the others).
underlying_assignment(op) ==
    CASE op = "AssignAdd" -> "Add"
      [] op = "AssignSubtract" -> "Subtract"
      [] op = "AssignMultiply" -> "Multiply"
      [] op = "AssignDivide" -> "Divide"
      [] op = "AssignModulus" -> "Modulus"
      [] op = "AssignBitXor" -> "BitXor"
      [] op = "AssignShiftLeft" -> "ShiftLeft"
      [] op = "AssignShiftRight" -> "ShiftRight"
      [] op = "AssignBitOr" -> "BitOr"
      [] op = "AssignBitAnd" -> "BitAnd"
      [] OTHER -> "None"

\* ---- Translation ----

\* What a translating method returns: the WithStmts value, and the renamer's
\* count of fresh names handed out so far (the renamer is state of Translation).
Res(stmts, val, n) == [stmts |-> stmts, val |-> val, n |-> n]

\* Renamer::fresh: the n-th synthetic name.
fresh(n) == "fresh" \o ToString(n)

\* Renamer::get on a name inserted without a clash.
renamer_get(name) == name

\* TypeConverter::convert
convert_type(ctype) == path_ty(ctype)

\* Translation::panic
panic_expr == [k |-> "Mac", name |-> "panic"]

\* What convert_expr, convert_binary_operator and convert_unary_operator yield
\* for a kind they do not implement (unimplemented!, panic!): translation aborts.
unimplemented(what) == [k |-> "Mac", name |-> "unimplemented " \o what]

\* bool_to_int
bool_to_int(val) == cast_expr(val, path_ty("libc::c_int"))

\* pointer_offset
pointer_offset(ptr, offset) ==
    method_call_expr(ptr, "offset", <<cast_expr(offset, path_ty("isize"))>>)

\* Translation::volatile_write
volatile_write(lhs, lhs_type, rhs) ==
    LET addr_lhs ==
            IF lhs.k = "Unary" /\ lhs.op = "Deref" THEN lhs.e
            ELSE cast_expr(addr_of_expr(TRUE, lhs), ptr_ty(TRUE, convert_type(lhs_type)))
    IN call_expr(path_expr("std::ptr::write_volatile"), <<addr_lhs, rhs>>)

\* Translation::volatile_read
volatile_read(lhs, lhs_type) ==
    LET addr_lhs ==
            IF lhs.k = "Unary" /\ lhs.op = "Deref" THEN lhs.e
            ELSE cast_expr(addr_of_expr(FALSE, lhs), ptr_ty(FALSE, convert_type(lhs_type)))
    IN call_expr(path_expr("std::ptr::read_volatile"), <<addr_lhs>>)

\* is_lvalue of name_reference
is_lvalue(e) ==
    \/ e.k \in {"Path", "Field", "TupField", "Index"}
    \/ e.k = "Unary" /\ e.op = "Deref"

RECURSIVE is_simple_lvalue(_)
\* is_simple_lvalue of name_reference
is_simple_lvalue(e) ==
    CASE e.k = "Path" -> TRUE
      [] e.k = "Unary" /\ e.op = "Deref" -> is_simple_lvalue(e.e)
      [] e.k \in {"Field", "TupField", "Index"} -> is_simple_lvalue(e.e)
      [] OTHER -> FALSE

\* Translation::convert_addition
convert_addition(lhs_type_id, rhs_type_id, lhs, rhs) ==
    LET lhs_type == resolve_type(lhs_type_id.ctype)
        rhs_type == resolve_type(rhs_type_id.ctype)
    IN IF is_pointer(lhs_type) THEN pointer_offset(lhs, rhs)
       ELSE IF is_pointer(rhs_type) THEN pointer_offset(lhs, rhs)
       ELSE IF is_unsigned_integral_type(lhs_type)
            THEN method_call_expr(lhs, "wrapping_add", <<rhs>>)
       ELSE binary_expr("Add", lhs, rhs)

\* convert_subtraction measuring the distance from lhs to rhs.
convert_subtraction_Swapped(ty, lhs_type_id, rhs_type_id, lhs, rhs) ==
    LET lhs_type == resolve_type(lhs_type_id.ctype)
        rhs_type == resolve_type(rhs_type_id.ctype)
    IN IF is_pointer(rhs_type)
       THEN LET offset_opt == method_call_expr(lhs, "offset_to", <<rhs>>)
                msg == str_lit_expr("bad offset_to")
                offset == method_call_expr(offset_opt, "expect", <<msg>>)
            IN cast_expr(offset, ty)
       ELSE IF is_pointer(lhs_type) THEN pointer_offset(lhs, unary_expr("Neg", rhs))
       ELSE IF is_unsigned_integral_type(lhs_type)
            THEN method_call_expr(lhs, "wrapping_sub", <<rhs>>)
       ELSE binary_expr("Sub", lhs, rhs)

\* Translation::convert_subtraction
convert_subtraction(ty, lhs_type_id, rhs_type_id, lhs, rhs) ==
    LET lhs_type == resolve_type(lhs_type_id.ctype)
        rhs_type == resolve_type(rhs_type_id.ctype)
    IN IF is_pointer(rhs_type)
       THEN LET offset_opt == method_call_expr(rhs, "offset_to", <<lhs>>)
                msg == str_lit_expr("bad offset_to")
                offset == method_call_expr(offset_opt, "expect", <<msg>>)
            IN cast_expr(offset, ty)
       ELSE IF is_pointer(lhs_type) THEN pointer_offset(lhs, unary_expr("Neg", rhs))
       ELSE IF is_unsigned_integral_type(lhs_type)
            THEN method_call_expr(lhs, "wrapping_sub", <<rhs>>)
       ELSE binary_expr("Sub", lhs, rhs)

\* Translation::convert_binary_operator
convert_binary_operator(op, ty, ctype, lhs_type, rhs_type, lhs, rhs) ==
    LET unsigned == is_unsigned_integral_type(index_type(ctype))
    IN CASE op = "Add" -> convert_addition(lhs_type, rhs_type, lhs, rhs)
         [] op = "Subtract" -> convert_subtraction(ty, lhs_type, rhs_type, lhs, rhs)
         [] op = "Multiply" ->
                IF unsigned THEN method_call_expr(lhs, "wrapping_mul", <<rhs>>)
                ELSE binary_expr("Mul", lhs, rhs)
         [] op = "Divide" ->
                IF unsigned THEN method_call_expr(lhs, "wrapping_div", <<rhs>>)
                ELSE binary_expr("Div", lhs, rhs)
         [] op = "Modulus" ->
                IF unsigned THEN method_call_expr(lhs, "wrapping_rem", <<rhs>>)
                ELSE binary_expr("Rem", lhs, rhs)
         [] op = "BitXor" -> binary_expr("BitXor", lhs, rhs)
         [] op = "ShiftRight" -> binary_expr("Shr", lhs, rhs)
         [] op = "ShiftLeft" -> binary_expr("Shl", lhs, rhs)
         [] op = "EqualEqual" -> bool_to_int(binary_expr("Eq", lhs, rhs))
         [] op = "NotEqual" -> bool_to_int(binary_expr("Ne", lhs, rhs))
         [] op = "Less" -> bool_to_int(binary_expr("Lt", lhs, rhs))
         [] op = "Greater" -> bool_to_int(binary_expr("Gt", lhs, rhs))
         [] op = "GreaterEqual" -> bool_to_int(binary_expr("Ge", lhs, rhs))
         [] op = "LessEqual" -> bool_to_int(binary_expr("Le", lhs, rhs))
         [] op = "BitAnd" -> binary_expr("BitAnd", lhs, rhs)
         [] op = "BitOr" -> binary_expr("BitOr", lhs, rhs)
         [] OTHER -> unimplemented("binary operator")

\* Translation::is_function_pointer
is_function_pointer(typ) ==
    /\ is_pointer(resolve_type(typ))
    /\ resolve_type(resolve_type(typ).pointee.ctype).k = "Function"

\* Translation::convert_not
convert_not(ty_id, val) ==
    LET ty == resolve_type(ty_id)
        b == IF is_pointer(ty) THEN method_call_expr(val, "is_null", <<>>)
             ELSE binary_expr("Eq", lit_expr(0), val)
    IN cast_expr(b, path_ty("libc::c_int"))

\* WithStmts::to_block: the statements of the block
to_block(ws) == Append(ws.stmts, expr_stmt(ws.val))

\* WithStmts::to_expr
to_expr(ws) == IF ws.stmts = <<>> THEN ws.val ELSE block_expr(Append(ws.stmts, expr_stmt(ws.val)))

\* Translation::match_bool
match_bool(target, ty_id, val) ==
    LET ty == resolve_type(ty_id)
    IN IF is_pointer(ty)
       THEN LET res == method_call_expr(val, "is_null", <<>>)
            IN IF target THEN unary_expr("Not", res) ELSE res
       ELSE LET zero == IF is_floating_type(ty) THEN [k |-> "LitFloat", s |-> "0."]
                        ELSE lit_expr(0)
            IN IF target THEN binary_expr("Ne", zero, val) ELSE binary_expr("Eq", zero, val)

\* The value of convert_pre_increment and convert_post_increment's `val`.
IncrementedVal(ty, up, read) ==
    LET one == lit_expr(1)
    IN IF is_pointer(resolve_type(ty.ctype))
       THEN method_call_expr(read, "offset", <<IF up THEN one ELSE unary_expr("Neg", one)>>)
       ELSE binary_expr(IF up THEN "Add" ELSE "Sub", read, one)

\* The arm of convert_assignment_operator's match for a native compound
\* assignment.
AssignOpKind(op) ==
    CASE op = "AssignAdd" -> "Add"
      [] op = "AssignSubtract" -> "Sub"
      [] op = "AssignMultiply" -> "Mul"
      [] op = "AssignDivide" -> "Div"
      [] op = "AssignModulus" -> "Rem"
      [] op = "AssignBitXor" -> "BitXor"
      [] op = "AssignShiftLeft" -> "Shl"
      [] op = "AssignShiftRight" -> "Shr"
      [] op = "AssignBitOr" -> "BitOr"
      [] op = "AssignBitAnd" -> "BitAnd"

RECURSIVE convert_expr(_, _, _)
RECURSIVE convert_args(_, _)
RECURSIVE convert_condition(_, _, _)
RECURSIVE convert_conditional(_, _, _)
RECURSIVE convert_and_or(_, _)
RECURSIVE name_reference(_, _, _)
RECURSIVE convert_pre_increment(_, _, _, _)
RECURSIVE convert_post_increment(_, _, _, _, _)
RECURSIVE convert_unary_operator(_, _, _, _, _)
RECURSIVE convert_assignment_operator(_, _, _, _, _, _, _)

\* Translation::name_reference; val is the pair (write, read), read "None"
\* when no read was asked for.
name_reference(reference, uses_read, n) ==
    LET reference_ty == get_qual_type(reference)
        read(write) ==
            IF reference_ty.is_volatile THEN volatile_read(write, reference_ty.ctype)
            ELSE write
    IN Only({
        IF ~uses_read /\ is_lvalue(ref.val)
        THEN Res(ref.stmts, [write |-> ref.val, read |-> [k |-> "None"]], ref.n)
        ELSE IF is_simple_lvalue(ref.val)
        THEN Res(ref.stmts, [write |-> ref.val, read |-> read(ref.val)], ref.n)
        ELSE LET ptr_name == fresh(ref.n)
                 compute_ref == local_stmt(TRUE, ptr_name, ref.val)
                 write == unary_expr("Deref", path_expr(ptr_name))
             IN Res(Append(ref.stmts, compute_ref),
                    [write |-> write, read |-> read(write)], ref.n + 1)
        : ref \in {convert_expr("LValue", reference, n)} })

\* Translation::convert_pre_increment
convert_pre_increment(ty, up, arg, n) ==
    Only({
        LET val == IncrementedVal(ty, up, nr.val.read)
            assign_stmt == assign_expr(nr.val.write, val)
        IN Res(Append(nr.stmts, expr_stmt(assign_stmt)), nr.val.read, nr.n)
        : nr \in {name_reference(arg, TRUE, n)} })

\* convert_post_increment writing the operand before it saves the old value.
convert_post_increment_WriteFirst(use_, ty, up, arg, n) ==
    IF use_ = "Unused" THEN convert_pre_increment(ty, up, arg, n)
    ELSE Only({
            LET arg_ty == get_qual_type(arg)
                val_name == fresh(nr.n)
                save_old_val == local_stmt(FALSE, val_name, nr.val.read)
                val == IncrementedVal(arg_ty, up, nr.val.read)
                assign_stmt == assign_expr(nr.val.write, val)
            IN Res(nr.stmts \o <<expr_stmt(assign_stmt), save_old_val>>,
                   path_expr(val_name), nr.n + 1)
            : nr \in {name_reference(arg, TRUE, n)} })

\* Translation::convert_post_increment
convert_post_increment(use_, ty, up, arg, n) ==
    IF use_ = "Unused" THEN convert_pre_increment(ty, up, arg, n)
    ELSE Only({
            LET arg_ty == get_qual_type(arg)
                val_name == fresh(nr.n)
                save_old_val == local_stmt(FALSE, val_name, nr.val.read)
                val == IncrementedVal(arg_ty, up, nr.val.read)
                assign_stmt == assign_expr(nr.val.write, val)
            IN Res(nr.stmts \o <<save_old_val, expr_stmt(assign_stmt)>>,
                   path_expr(val_name), nr.n + 1)
            : nr \in {name_reference(arg, TRUE, n)} })

\* Translation::convert_unary_operator
convert_unary_operator(use_, name, cqual_type, arg, n) ==
    LET ctype == cqual_type.ctype
        ty == convert_type(ctype)
        resolved_ctype == resolve_type(ctype)
    IN CASE name = "AddressOf" ->
                Only({ IF is_function_pointer(ctype) THEN a
                       ELSE Res(a.stmts, cast_expr(addr_of_expr(TRUE, a.val), ty), a.n)
                       : a \in {convert_expr("LValue", arg, n)} })
         [] name = "PreIncrement" -> convert_pre_increment(cqual_type, TRUE, arg, n)
         [] name = "PreDecrement" -> convert_pre_increment(cqual_type, FALSE, arg, n)
         [] name = "PostIncrement" -> convert_post_increment(use_, cqual_type, TRUE, arg, n)
         [] name = "PostDecrement" -> convert_post_increment(use_, cqual_type, FALSE, arg, n)
         [] name = "Deref" ->
                Only({ LET val == unary_expr("Deref", a.val)
                       IN Res(a.stmts,
                              IF use_ # "LValue" /\ cqual_type.is_volatile
                              THEN volatile_read(val, ctype) ELSE val,
                              a.n)
                       : a \in {convert_expr("RValue", arg, n)} })
         [] name = "Plus" -> convert_expr("RValue", arg, n)
         [] name = "Negate" ->
                Only({ Res(a.stmts,
                           IF is_unsigned_integral_type(resolved_ctype)
                           THEN method_call_expr(a.val, "wrapping_neg", <<>>)
                           ELSE unary_expr("Neg", a.val),
                           a.n)
                       : a \in {convert_expr("RValue", arg, n)} })
         [] name = "Complement" ->
                Only({ Res(a.stmts, unary_expr("Not", a.val), a.n)
                       : a \in {convert_expr("RValue", arg, n)} })
         [] name = "Not" ->
                Only({ Res(a.stmts, convert_not(ctype, a.val), a.n)
                       : a \in {convert_expr("RValue", arg, n)} })

\* Translation::convert_assignment_operator
convert_assignment_operator(use_, op, ty, ctype, lhs, rhs, n) ==
    LET lhs_type == get_qual_type(lhs)
        rhs_type == get_qual_type(rhs)
        is_volatile == lhs_type.is_volatile
        is_volatile_compound_assign == underlying_assignment(op) # "None" /\ is_volatile
        uses_read == use_ = "RValue" \/ is_volatile_compound_assign
    IN Only({ Only({
        LET write == nr.val.write
            read == IF uses_read THEN nr.val.read ELSE panic_expr
            stmts == nr.stmts \o r.stmts
            assign_stmt ==
                CASE op = "Assign" /\ ~is_volatile -> assign_expr(write, r.val)
                  [] op = "Assign" /\ is_volatile -> volatile_write(write, lhs_type.ctype, r.val)
                  [] op # "Assign" /\ is_volatile ->
                        LET val == convert_binary_operator(underlying_assignment(op), ty, ctype,
                                                           lhs_type, rhs_type, read, r.val)
                        IN volatile_write(write, lhs_type.ctype, val)
                  [] OTHER -> assign_op_expr(AssignOpKind(op), write, r.val)
        IN Res(Append(stmts, expr_stmt(assign_stmt)), read, r.n)
        : r \in {convert_expr("RValue", rhs, nr.n)} })
        : nr \in {name_reference(lhs, uses_read, n)} })

\* Translation::convert_condition
convert_condition(target, cond, n) ==
    Only({ Res(c.stmts, match_bool(target, get_type(cond), c.val), c.n)
           : c \in {convert_expr("RValue", cond, n)} })

\* convert_expr's And and Or arms made to put the right operand's statements
\* in front of the operator.
convert_and_or_Hoisted(e, n) ==
    Only({ Only({
        Res(l.stmts \o r.stmts,
            bool_to_int(binary_expr(e.op, match_bool(TRUE, get_type(e.lhs), l.val),
                                    match_bool(TRUE, get_type(e.rhs), r.val))),
            r.n)
        : r \in {convert_expr("RValue", e.rhs, l.n)} })
        : l \in {convert_expr("RValue", e.lhs, n)} })

\* convert_expr's And and Or arms
convert_and_or(e, n) ==
    LET lhs_ty == get_type(e.lhs)
        rhs_ty == get_type(e.rhs)
    IN Only({ Only({
        LET lhs == Res(l.stmts, match_bool(TRUE, lhs_ty, l.val), l.n)
            rhs == Res(r.stmts, match_bool(TRUE, rhs_ty, r.val), r.n)
        IN Res(lhs.stmts, bool_to_int(binary_expr(e.op, lhs.val, to_expr(rhs))), rhs.n)
        : r \in {convert_expr("RValue", e.rhs, l.n)} })
        : l \in {convert_expr("RValue", e.lhs, n)} })

\* convert_expr's Conditional arm made to run the statements of both arms
\* before the `if`.
convert_conditional_Eager(use_, e, n) ==
    Only({ Only({ Only({
        IF use_ = "Unused"
        THEN Res(cond.stmts \o lhs.stmts \o rhs.stmts, panic_expr, rhs.n)
        ELSE Res(cond.stmts \o lhs.stmts \o rhs.stmts,
                 ifte_expr(cond.val, <<expr_stmt(lhs.val)>>, rhs.val), rhs.n)
        : rhs \in {convert_expr(use_, e.rhs, lhs.n)} })
        : lhs \in {convert_expr(use_, e.lhs, cond.n)} })
        : cond \in {convert_condition(TRUE, e.cond, n)} })

\* convert_expr's Conditional arm
convert_conditional(use_, e, n) ==
    Only({ Only({ Only({
        IF use_ = "Unused"
        THEN LET then == lhs.stmts
                 els == block_expr(rhs.stmts)
             IN Res(Append(cond.stmts, semi_stmt(ifte_expr(cond.val, then, els))),
                    panic_expr, rhs.n)
        ELSE LET then == to_block(lhs)
                 els == to_expr(rhs)
             IN Res(cond.stmts, ifte_expr(cond.val, then, els), rhs.n)
        : rhs \in {convert_expr(use_, e.rhs, lhs.n)} })
        : lhs \in {convert_expr(use_, e.lhs, cond.n)} })
        : cond \in {convert_condition(TRUE, e.cond, n)} })

\* The loop over the arguments with each argument's statements put in front
\* of those of the arguments before it.
convert_args_RightToLeft(args, n) ==
    IF args = <<>> THEN Res(<<>>, <<>>, n)
    ELSE Only({ Only({
            Res(rest.stmts \o a.stmts, <<a.val>> \o rest.val, rest.n)
            : rest \in {convert_args(Tail(args), a.n)} })
            : a \in {convert_expr("RValue", Head(args), n)} })

\* The loop over the arguments in convert_expr's Call arm; val is the list of
\* the translated arguments.
convert_args(args, n) ==
    IF args = <<>> THEN Res(<<>>, <<>>, n)
    ELSE Only({ Only({
            Res(a.stmts \o rest.stmts, <<a.val>> \o rest.val, rest.n)
            : rest \in {convert_args(Tail(args), a.n)} })
            : a \in {convert_expr("RValue", Head(args), n)} })

\* Translation::implicit_default_expr
implicit_default_expr(ty_id) ==
    LET resolved_ty == resolve_type(ty_id)
    IN IF is_integral_type(resolved_ty) THEN lit_expr(0)
       ELSE IF is_floating_type(resolved_ty) THEN [k |-> "LitFloat", s |-> "0."]
       ELSE call_expr(path_expr("Default::default"), <<>>)

\* Translation::convert_struct_literal. The first loop converts the provided
\* values as convert_args does a call's arguments and pushes a field for
\* each; the second loop runs from ids.len() to fields.len(), the length of
\* the vector of fields pushed so far.
convert_struct_literal(struct_id, ids, ty, n) ==
    LET struct_name == Records[struct_id].name
        field_decls == Records[struct_id].fields
    IN Only({
        LET fields == [i \in 1..Len(ids) |-> field(field_decls[i].name, x.val[i])]
            padding == [i \in 1..(Len(fields) - Len(ids)) |->
                          field(field_decls[Len(ids) + i].name,
                                implicit_default_expr(field_decls[Len(ids) + i].typ.ctype))]
        IN Res(x.stmts, struct_expr(struct_name, fields \o padding), x.n)
        : x \in {convert_args(ids, n)} })

\* Translation::convert_expr
convert_expr(use_, e, n) ==
    CASE e.k = "DeclRef" ->
            LET rustname == renamer_get(e.name)
                val == path_expr(rustname)
            IN Res(<<>>,
                   IF use_ # "LValue" /\ e.qty.is_volatile
                   THEN volatile_read(val, e.qty.ctype) ELSE val,
                   n)
      [] e.k = "Literal" -> Res(<<>>, lit_expr(e.val), n)
      [] e.k = "ImplicitCast" ->
            Only({
                CASE e.kind = "IntegralCast" ->
                        Res(val.stmts, paren_expr(cast_expr(val.val, convert_type(e.qty.ctype))),
                            val.n)
                  [] e.kind \in {"LValueToRValue", "NoOp", "ToVoid", "FunctionToPointerDecay"} ->
                        val
                  [] e.kind = "ArrayToPointerDecay" ->
                        Res(val.stmts, method_call_expr(val.val, "as_mut_ptr", <<>>), val.n)
                  [] OTHER -> Res(val.stmts, unimplemented("cast"), val.n)
                : val \in {convert_expr(use_, e.e, n)} })
      [] e.k = "Unary" -> convert_unary_operator(use_, e.op, e.qty, e.arg, n)
      [] e.k = "Conditional" -> convert_conditional(use_, e, n)
      [] e.k = "Binary" ->
            IF e.op = "Comma"
            THEN Only({ Only({
                    Res(lhs.stmts \o rhs.stmts, rhs.val, rhs.n)
                    : rhs \in {convert_expr(use_, e.rhs, lhs.n)} })
                    : lhs \in {convert_expr("Unused", e.lhs, n)} })
            ELSE IF e.op \in {"And", "Or"} THEN convert_and_or(e, n)
            ELSE IF e.op \in AssignOps \cup {"Assign"}
            THEN convert_assignment_operator(use_, e.op, convert_type(e.qty.ctype),
                                             e.qty.ctype, e.lhs, e.rhs, n)
            ELSE Only({ Only({
                    LET ty == convert_type(e.qty.ctype)
                        lhs_type == get_qual_type(e.lhs)
                        rhs_type == get_qual_type(e.rhs)
                        val == convert_binary_operator(e.op, ty, e.qty.ctype, lhs_type, rhs_type,
                                                       lhs.val, rhs.val)
                    IN Res(lhs.stmts \o rhs.stmts, val, rhs.n)
                    : rhs \in {convert_expr("RValue", e.rhs, lhs.n)} })
                    : lhs \in {convert_expr("RValue", e.lhs, n)} })
      [] e.k = "ArraySubscript" ->
            LET lhs_node == e.lhs
                lhs_is_pointer == is_pointer(resolve_type(get_type(lhs_node)))
                lhs == IF lhs_is_pointer THEN e.lhs ELSE e.rhs
                rhs == IF lhs_is_pointer THEN e.rhs ELSE e.lhs
            IN Only({
                IF lhs_node.k = "ImplicitCast" /\ lhs_node.kind = "ArrayToPointerDecay"
                THEN Only({ Res(r.stmts \o l.stmts, index_expr(l.val, r.val), l.n)
                            : l \in {convert_expr(use_, lhs_node.e, r.n)} })
                ELSE Only({ Res(r.stmts \o l.stmts,
                                unary_expr("Deref", pointer_offset(l.val, r.val)), l.n)
                            : l \in {convert_expr("RValue", lhs, r.n)} })
                : r \in {convert_expr("RValue", rhs, n)} })
      [] e.k = "InitList" ->
            LET resolved == resolve_type(e.qty.ctype)
            IN CASE resolved.k = "ConstantArray" ->
                       Only({
                           LET padding == [i \in 1..(resolved.size - Len(e.ids)) |->
                                              implicit_default_expr(resolved.elt)]
                           IN Res(x.stmts, array_expr(x.val \o padding), x.n)
                           : x \in {convert_args(e.ids, n)} })
                 [] resolved.k = "Struct" ->
                       convert_struct_literal(resolved.struct_id, e.ids, e.qty, n)
                 [] OTHER -> Res(<<>>, unimplemented("init list"), n)
      [] e.k = "Call" ->
            Only({ Only({
                LET stmts == func.stmts \o args.stmts
                    call == call_expr(func.val, args.val)
                IN IF use_ = "Unused"
                   THEN Res(Append(stmts, semi_stmt(call)), panic_expr, args.n)
                   ELSE Res(stmts, call, args.n)
                : args \in {convert_args(e.args, func.n)} })
                : func \in {convert_expr("RValue", e.func, n)} })

\* stmts_block
stmts_block(stmts) ==
    IF Len(stmts) = 1 /\ stmts[1].k = "Expr" /\ stmts[1].e.k = "Block" THEN stmts[1].e.stmts
    ELSE IF Len(stmts) > 0
    THEN LET n == Len(stmts)
             s == stmts[n]
         IN Append(SubSeq(stmts, 1, n - 1), IF s.k = "Expr" THEN semi_stmt(s.e) ELSE s)
    ELSE stmts

\* Translation::convert_return_stmt of a return with an expression
convert_return_stmt(result, n) ==
    Only({ LET ret == expr_stmt(return_expr(ws.val))
           IN Res(Append(ws.stmts, ret), panic_expr, ws.n)
           : ws \in {convert_expr("RValue", result, n)} })

RECURSIVE convert_stmts(_, _)
\* The flat_map of convert_stmt's Compound arm over statements that are
\* expression statements (CStmtKind::Expr), each contributing
\* convert_expr(Unused, expr).stmts, or return statements.
convert_stmts(exprs, n) ==
    IF exprs = <<>> THEN Res(<<>>, panic_expr, n)
    ELSE Only({ Only({
            Res(head.stmts \o rest.stmts, panic_expr, rest.n)
            : rest \in {convert_stmts(Tail(exprs), head.n)} })
            : head \in {IF Head(exprs).k = "Return"
                        THEN convert_return_stmt(Head(exprs).e, n)
                        ELSE convert_expr("Unused", Head(exprs), n)} })

\* Translation::convert_stmt on a compound statement of expression statements.
convert_stmt(exprs) ==
    <<expr_stmt(block_expr(stmts_block(convert_stmts(exprs, 0).stmts)))>>

\* ---- the translation unit translated ----

\* The variables and functions the translation unit declares, with their
\* types: f returns int, g returns int *.
Decls ==
    [ x |-> QualType("int", FALSE), y |-> QualType("int", FALSE),
      z |-> QualType("int", FALSE), v |-> QualType("int", TRUE),
      u |-> QualType("uint", FALSE), u2 |-> QualType("uint", FALSE),
      t |-> QualType("u32", FALSE), t2 |-> QualType("u32", FALSE),
      p |-> QualType("p_int", FALSE), q |-> QualType("p_vint", FALSE),
      p2 |-> QualType("p_int", FALSE), d |-> QualType("double", FALSE),
      a |-> QualType("arr", FALSE),
      f |-> QualType("fn", FALSE), g |-> QualType("fn_p", FALSE) ]

Var(name) == DeclRef(Decls[name], name)

\* An lvalue read for its value, as clang's AST has it.
Rvalue(e) == ImplicitCast(QualType(e.qty.ctype, FALSE), e, "LValueToRValue")

IntTy == QualType("int", FALSE)
CallF == Call(IntTy, ImplicitCast(QualType("p_fn", FALSE), Var("f"), "FunctionToPointerDecay"), <<>>)
CallG ==
    Call(QualType("p_int", FALSE),
         ImplicitCast(QualType("p_fn_p", FALSE), Var("g"), "FunctionToPointerDecay"), <<>>)
Decay(e) == ImplicitCast(QualType("p_int", FALSE), e, "ArrayToPointerDecay")

\* x, v, u, t, *p, *q, a[0], a[f()], p[f()], *g()
Lvalues ==
    { Var("x"), Var("v"), Var("u"), Var("t"),
      Unary(IntTy, "Deref", Rvalue(Var("p"))),
      Unary(QualType("int", TRUE), "Deref", Rvalue(Var("q"))),
      ArraySubscript(IntTy, Decay(Var("a")), Literal(0)),
      ArraySubscript(IntTy, Decay(Var("a")), CallF),
      ArraySubscript(IntTy, Rvalue(Var("p")), CallF),
      Unary(IntTy, "Deref", CallG) }

\* 1, y, f()
PlainOperands == {Literal(1), Rvalue(Var("y")), CallF}

\* 1, y, f(), v, x++
Operands ==
    PlainOperands \cup {Rvalue(Var("v")), Unary(IntTy, "PostIncrement", Var("x"))}

IncDecOps == {"PreIncrement", "PreDecrement", "PostIncrement", "PostDecrement"}
ArithOps == {"Add", "Subtract", "Multiply", "Divide", "Modulus"}
OtherBinOps ==
    {"BitXor", "ShiftRight", "ShiftLeft", "EqualEqual", "NotEqual", "Less", "Greater",
     "GreaterEqual", "LessEqual", "BitAnd", "BitOr"}

\* lhs op rhs, an assignment; its type is the lhs's, unqualified
Assignment(op, lhs, rhs) == Binary(QualType(lhs.qty.ctype, FALSE), op, lhs, rhs)

\* a op b on two variables of one type
Arith(op, a, b) == Binary(QualType(Decls[a].ctype, FALSE), op, Rvalue(Var(a)), Rvalue(Var(b)))

IncDec(op, e) == Unary(QualType(e.qty.ctype, FALSE), op, e)

\* The programs that are run after translation: `y = x++; z = x--;` and the like.
RunPrograms ==
    { <<Assignment("Assign", Var("y"), IncDec(o1, Var("x"))),
        Assignment("Assign", Var("z"), IncDec(o2, Var("x")))>> : o1, o2 \in IncDecOps }

\* y = x++; z = x++;
TwoPostIncrements ==
    <<Assignment("Assign", Var("y"), IncDec("PostIncrement", Var("x"))),
      Assignment("Assign", Var("z"), IncDec("PostIncrement", Var("x")))>>

\* p - p2
PointerDifference ==
    <<Binary(QualType("long", FALSE), "Subtract", Rvalue(Var("p")), Rvalue(Var("p2")))>>

\* p + x, x + p, p - x
PointerSums ==
    { <<Binary(QualType("p_int", FALSE), "Add", Rvalue(Var("p")), Rvalue(Var("x")))>>,
      <<Binary(QualType("p_int", FALSE), "Add", Rvalue(Var("x")), Rvalue(Var("p")))>>,
      <<Binary(QualType("p_int", FALSE), "Subtract", Rvalue(Var("p")), Rvalue(Var("x")))>> }

\* x > 0, x++ > 0, p
Conditions ==
    { Binary(IntTy, "Greater", Rvalue(Var("x")), Literal(0)),
      Binary(IntTy, "Greater", IncDec("PostIncrement", Var("x")), Literal(0)),
      Rvalue(Var("p")) }

\* The two arms of a conditional: x and -x, ++y and --z, y++ and f()
Arms ==
    { <<Rvalue(Var("x")), Unary(IntTy, "Negate", Rvalue(Var("x")))>>,
      <<IncDec("PreIncrement", Var("y")), IncDec("PreDecrement", Var("z"))>>,
      <<IncDec("PostIncrement", Var("y")), CallF>> }

\* c ? a : b
Conditionals == {Conditional(IntTy, c, ab[1], ab[2]) : c \in Conditions, ab \in Arms}

\* The function f decayed to a pointer, as a callee is.
DecayF == ImplicitCast(QualType("p_fn", FALSE), Var("f"), "FunctionToPointerDecay")

\* The callees: f and (z++, f)
Callees == {DecayF, Binary(QualType("p_fn", FALSE), "Comma", IncDec("PostIncrement", Var("z")), DecayF)}

\* The argument lists: (), (x++, y--), (v, x++), (y--, x++, v)
ArgLists ==
    { <<>>,
      <<IncDec("PostIncrement", Var("x")), IncDec("PostDecrement", Var("y"))>>,
      <<Rvalue(Var("v")), IncDec("PostIncrement", Var("x"))>>,
      <<IncDec("PostDecrement", Var("y")), IncDec("PostIncrement", Var("x")), Rvalue(Var("v"))>> }

\* callee(args)
Calls == {Call(IntTy, c, args) : c \in Callees, args \in ArgLists}

\* !x, !p, !d: the logical negation of an int, a pointer and a double; the
\* type of the negation is int.
Negations == {Unary(IntTy, "Not", Rvalue(Var(nm))) : nm \in {"x", "p", "d"}}

\* a && b and a || b
Logicals == {Binary(IntTy, op, l, r) : op \in {"And", "Or"}, l \in Conditions, r \in Conditions}

\* y = (x > 0 && x++ > 0); and y = (x > 0 || x++ > 0);
LogicalPrograms ==
    { <<Assignment("Assign", Var("y"),
                   Binary(IntTy, op, Binary(IntTy, "Greater", Rvalue(Var("x")), Literal(0)),
                          Binary(IntTy, "Greater", IncDec("PostIncrement", Var("x")),
                                 Literal(0))))>> : op \in {"And", "Or"} }

\* a[x], x[a], p[x], x[p]
Subscripts ==
    { ArraySubscript(IntTy, Decay(Var("a")), Rvalue(Var("x"))),
      ArraySubscript(IntTy, Rvalue(Var("x")), Decay(Var("a"))),
      ArraySubscript(IntTy, Rvalue(Var("p")), Rvalue(Var("x"))),
      ArraySubscript(IntTy, Rvalue(Var("x")), Rvalue(Var("p"))) }

\* The expressions with a side effect in each of their two operands, with
\* the variable the first operand writes and the one the second writes:
\* x++ + y--, x++ < y--, *p++ = y--, *p++ += y--, p++[x++], x++[p++]
TwoSided ==
    { [e |-> Binary(IntTy, op, IncDec("PostIncrement", Var("x")),
                    IncDec("PostDecrement", Var("y"))),
       first |-> "x", second |-> "y"] : op \in {"Add", "Less"} }
    \cup { [e |-> Assignment(op, Unary(IntTy, "Deref", IncDec("PostIncrement", Var("p"))),
                             IncDec("PostDecrement", Var("y"))),
            first |-> "p", second |-> "y"] : op \in {"Assign", "AssignAdd"} }
    \cup { [e |-> ArraySubscript(IntTy, IncDec("PostIncrement", Var("p")),
                                 IncDec("PostIncrement", Var("x"))),
            first |-> "p", second |-> "x"],
           [e |-> ArraySubscript(IntTy, IncDec("PostIncrement", Var("x")),
                                 IncDec("PostIncrement", Var("p"))),
            first |-> "x", second |-> "p"] }

\* The provided values of an initializer list of struct s3: none, x++, x++ and
\* d, and x++, d and p.
Provided ==
    { SubSeq(<<IncDec("PostIncrement", Var("x")), Rvalue(Var("d")), Rvalue(Var("p"))>>, 1, k)
      : k \in 0..3 }

\* (struct s3){ ... } and (int[2]){ ... }, and an initializer list of an int
StructInits == {InitList(QualType("s3", FALSE), ids) : ids \in Provided}
ArrayInits == {InitList(QualType("arr", FALSE), ids) : ids \in {<<>>, <<Literal(1)>>, <<CallF, Rvalue(Var("y"))>>}}
InitLists == StructInits \cup ArrayInits \cup {InitList(IntTy, <<Literal(1)>>)}

\* return x > 0 ? x : -x;
ReturnAbs ==
    <<Return(Conditional(IntTy, Binary(IntTy, "Greater", Rvalue(Var("x")), Literal(0)),
                         Rvalue(Var("x")), Unary(IntTy, "Negate", Rvalue(Var("x")))))>>

\* The function bodies run on x = 3 and x = -3: a return of a conditional
\* that makes no call and tests no pointer.
ReturnPrograms ==
    {<<Return(e)>> : e \in {c \in Conditionals : c.cond.k = "Binary" /\ c.rhs.k # "Call"}}

\* The expression statements translated: one statement each, but for RunPrograms.
Programs ==
    { <<Assignment(op, l, r)>> : op \in AssignOps \cup {"Assign"}, l \in Lvalues, r \in Operands }
    \cup { <<Assignment("Assign", Var("y"), Assignment(op, l, r))>> :
             op \in AssignOps, l \in Lvalues, r \in PlainOperands }
    \cup { <<IncDec(op, l)>> : op \in IncDecOps, l \in Lvalues \cup {Var("p")} }
    \cup { <<Arith(op, ab[1], ab[2])>> :
             op \in ArithOps \cup OtherBinOps, ab \in {<<"x", "y">>, <<"u", "u2">>, <<"t", "t2">>} }
    \cup { <<Var("v")>>, <<Rvalue(Var("v"))>>, <<Var("x")>>, <<Rvalue(Var("x"))>>,
           <<Unary(QualType("int", TRUE), "Deref", Rvalue(Var("q")))>> }
    \cup RunPrograms
    \cup {PointerDifference} \cup PointerSums
    \cup {<<e>> : e \in Conditionals} \cup ReturnPrograms
    \cup {<<e>> : e \in Calls} \cup {<<e>> : e \in Negations}
    \cup {<<e>> : e \in Logicals} \cup LogicalPrograms
    \cup {<<e>> : e \in Subscripts} \cup {<<t.e>> : t \in TwoSided}
    \cup {<<e>> : e \in InitLists}

ExprUses == {"Unused", "LValue", "RValue"}

\* ---- running the emitted Rust ----

\* The values of an integer type: unsigned int has UIntBits bits, int as many.
TypeMin(signed) == IF signed THEN -(2 ^ (UIntBits - 1)) ELSE 0
TypeMax(signed) == IF signed THEN 2 ^ (UIntBits - 1) - 1 ELSE 2 ^ UIntBits - 1

\* The value of the type that v wraps around to.
Wrap(v, signed) ==
    TypeMin(signed) + ((v - TypeMin(signed)) % (TypeMax(signed) - TypeMin(signed) + 1))

Abs(i) == IF i < 0 THEN -i ELSE i
\* Rust's / and % on integers: truncating division and its remainder.
TruncDiv(a, b) ==
    IF (a < 0) = (b < 0) THEN Abs(a) \div Abs(b) ELSE -(Abs(a) \div Abs(b))
TruncRem(a, b) == a - b * TruncDiv(a, b)

Value(v) == [trap |-> FALSE, v |-> v]
Trap == [trap |-> TRUE, v |-> 0]

\* An arithmetic operator of Rust on two values of one integer type: with
\* overflow checks a result out of range panics, without them it wraps.
NativeOp(op, a, b, signed, checks) ==
    LET r == CASE op = "Add" -> a + b
               [] op = "Sub" -> a - b
               [] op = "Mul" -> a * b
               [] op = "Div" -> IF b = 0 THEN 0 ELSE TruncDiv(a, b)
               [] op = "Rem" -> IF b = 0 THEN 0 ELSE TruncRem(a, b)
               \* comparisons: true is 1 and false is 0
               [] op = "Eq" -> IF a = b THEN 1 ELSE 0
               [] op = "Ne" -> IF a # b THEN 1 ELSE 0
               [] op = "Lt" -> IF a < b THEN 1 ELSE 0
               [] op = "Gt" -> IF a > b THEN 1 ELSE 0
               [] op = "Le" -> IF a <= b THEN 1 ELSE 0
               [] op = "Ge" -> IF a >= b THEN 1 ELSE 0
    IN IF op \in {"Div", "Rem"} /\ b = 0 THEN Trap
       ELSE IF r < TypeMin(signed) \/ r > TypeMax(signed)
            THEN (IF checks THEN Trap ELSE Value(Wrap(r, signed)))
       ELSE Value(r)

\* The wrapping_* methods of Rust's integers.
WrappingOp(name, a, b, signed) ==
    CASE name = "wrapping_add" -> Value(Wrap(a + b, signed))
      [] name = "wrapping_sub" -> Value(Wrap(a - b, signed))
      [] name = "wrapping_mul" -> Value(Wrap(a * b, signed))
      [] name = "wrapping_div" -> IF b = 0 THEN Trap ELSE Value(Wrap(TruncDiv(a, b), signed))
      [] name = "wrapping_rem" -> IF b = 0 THEN Trap ELSE Value(Wrap(TruncRem(a, b), signed))

\* <*const T>::offset_to on two addresses, size the size of T in bytes: no
\* result for a zero-sized T, else the distance in elements.
OffsetTo(self, other, size) ==
    IF size = 0 THEN [k |-> "None"] ELSE [k |-> "Some", v |-> TruncDiv(other - self, size)]

WrappingNames ==
    {"wrapping_add", "wrapping_sub", "wrapping_mul", "wrapping_div", "wrapping_rem"}

RECURSIVE Eval(_, _, _, _)
\* The value of an emitted expression over variables, literals, arithmetic
\* operators and wrapping methods.
Eval(e, env, signed, checks) ==
    CASE e.k = "Path" -> Value(env[e.name])
      [] e.k = "Lit" -> Value(e.val)
      [] e.k = "Paren" -> Eval(e.e, env, signed, checks)
      [] e.k = "Binary" ->
            Only({ IF l.trap \/ r.trap THEN Trap ELSE NativeOp(e.op, l.v, r.v, signed, checks)
                   : l \in {Eval(e.l, env, signed, checks)},
                     r \in {Eval(e.r, env, signed, checks)} })
      [] e.k = "MethodCall" /\ e.name \in WrappingNames ->
            Only({ IF l.trap \/ r.trap THEN Trap ELSE WrappingOp(e.name, l.v, r.v, signed)
                   : l \in {Eval(e.recv, env, signed, checks)},
                     r \in {Eval(e.args[1], env, signed, checks)} })
      [] e.k = "Cast" -> Eval(e.e, env, signed, checks)
      [] e.k = "Unary" /\ e.op = "Neg" ->
            Only({ IF a.trap THEN Trap ELSE NativeOp("Sub", 0, a.v, signed, checks)
                   : a \in {Eval(e.e, env, signed, checks)} })
      \* Option::expect on the result of offset_to: panics on None; the size
      \* of the pointee is env.size_of
      [] e.k = "MethodCall" /\ e.name = "expect" ->
            Only({ LET opt == OffsetTo(self.v, other.v, env.size_of)
                   IN IF self.trap \/ other.trap \/ opt.k = "None" THEN Trap ELSE Value(opt.v)
                   : self \in {Eval(e.recv.recv, env, signed, checks)},
                     other \in {Eval(e.recv.args[1], env, signed, checks)} })

\* env with name bound to v
Bind(env, name, v) ==
    [nm \in DOMAIN env \cup {name} |-> IF nm = name THEN v ELSE env[nm]]

RECURSIVE Exec(_, _, _)
RECURSIVE Run(_, _, _)
RECURSIVE RunBlock(_, _, _)

\* An emitted expression of type int run in state st, [env, trap]: the state
\* after it and its value, [st, v]. Blocks and the branches of an `if` run
\* their statements; && and || run their right operand only when needed.
Run(e, st, checks) ==
    CASE e.k = "If" ->
            Only({ IF c.st.trap THEN c
                   ELSE IF c.v = 1 THEN RunBlock(e.then, c.st, checks)
                   ELSE Run(e.els, c.st, checks)
                   : c \in {Run(e.cond, st, checks)} })
      [] e.k = "Block" -> RunBlock(e.stmts, st, checks)
      [] e.k \in {"Cast", "Paren"} -> Run(e.e, st, checks)
      [] e.k = "Binary" ->
            Only({
                IF l.st.trap \/ (e.op = "And" /\ l.v = 0) \/ (e.op = "Or" /\ l.v = 1) THEN l
                ELSE Only({
                        IF r.st.trap \/ e.op \in {"And", "Or"} THEN r
                        ELSE Only({ [st |-> [r.st EXCEPT !.trap = o.trap], v |-> o.v]
                                    : o \in {NativeOp(e.op, l.v, r.v, TRUE, checks)} })
                        : r \in {Run(e.r, l.st, checks)} })
                : l \in {Run(e.l, st, checks)} })
      [] OTHER ->
            Only({ [st |-> [st EXCEPT !.trap = r.trap], v |-> r.v]
                   : r \in {Eval(e, st.env, TRUE, checks)} })

\* The statements of a block that ends in its value, run.
RunBlock(stmts, st, checks) ==
    LET n == Len(stmts)
    IN Only({ IF before.trap THEN [st |-> before, v |-> 0] ELSE Run(stmts[n].e, before, checks)
              : before \in {Exec(SubSeq(stmts, 1, n - 1), st, checks)} })

\* The variables after a list of emitted statements ran: `let`s, assignments
\* to variables, blocks, `if`s and `return`, whose value is kept as ret and
\* which ends the run. st is [env, trap].
Exec(stmts, st, checks) ==
    IF stmts = <<>> \/ st.trap \/ "ret" \in DOMAIN st.env THEN st
    ELSE Only({ Exec(Tail(stmts), next, checks)
            : next \in {
                LET s == Head(stmts)
                IN CASE s.k = "Local" ->
                        Only({ IF r.st.trap THEN r.st
                               ELSE [r.st EXCEPT !.env = Bind(r.st.env, s.name, r.v)]
                               : r \in {Run(s.init, st, checks)} })
                  [] s.k \in {"Expr", "Semi"} /\ s.e.k = "Assign" ->
                        Only({ IF r.st.trap THEN r.st
                               ELSE [r.st EXCEPT !.env = Bind(r.st.env, s.e.l.name, r.v)]
                               : r \in {Run(s.e.r, st, checks)} })
                  [] s.k \in {"Expr", "Semi"} /\ s.e.k = "Ret" ->
                        Only({ IF r.st.trap THEN r.st
                               ELSE [r.st EXCEPT !.env = Bind(r.st.env, "ret", r.v)]
                               : r \in {Run(s.e.e, st, checks)} })
                  [] s.k \in {"Expr", "Semi"} /\ s.e.k = "If" ->
                        Only({ IF c.st.trap THEN c.st
                               ELSE IF c.v = 1 THEN Exec(s.e.then, c.st, checks)
                               ELSE Exec(s.e.els.stmts, c.st, checks)
                               : c \in {Run(s.e.cond, st, checks)} })
                  [] s.k \in {"Expr", "Semi"} /\ s.e.k = "Block" ->
                        Exec(s.e.stmts, st, checks) } })

\* The variables before the translated statements run.
InitialEnv(x0) == [env |-> [x |-> x0, y |-> 0, z |-> 0], trap |-> FALSE]

\* ---- the translator as a state machine ----

NoResult == Res(<<>>, [k |-> "None"], 0)

InitTranslate ==
    /\ tr_prog \in Programs
    /\ tr_use \in ExprUses
    /\ tr_use = "LValue" => tr_prog[1].k \in {"DeclRef", "Unary"}
    /\ tr_x0 \in IF tr_prog \in RunPrograms THEN {MaxX0 - 1, MaxX0}
                 ELSE IF tr_prog \in ReturnPrograms \cup LogicalPrograms THEN {3, -3}
                 ELSE {MaxX0}
    /\ tr_out = NoResult
    /\ tr_body = <<>>
    /\ tr_env = InitialEnv(tr_x0)
    /\ tr_pc = "src"

\* An enclosing expression translates the expression with convert_expr.
ConvertExpr ==
    /\ tr_pc = "src"
    /\ Len(tr_prog) = 1
    /\ tr_prog[1].k # "Return"
    /\ tr_out' = convert_expr(tr_use, tr_prog[1], 0)
    /\ tr_pc' = "expr"
    /\ UNCHANGED <<tr_use, tr_prog, tr_x0, tr_body, tr_env, wsVars, spVars, tuVars, otherVars>>

\* convert_stmt translates the compound statement of the expression statements.
ConvertStmt ==
    /\ tr_pc = "src"
    /\ tr_use = "Unused"
    /\ tr_body' = convert_stmt(tr_prog)
    /\ tr_pc' = "body"
    /\ UNCHANGED <<tr_use, tr_prog, tr_x0, tr_out, tr_env, wsVars, spVars, tuVars, otherVars>>

\* The emitted statements run, built with or without overflow checks.
RunBody ==
    /\ tr_pc = "body"
    /\ tr_prog \in RunPrograms \cup ReturnPrograms \cup LogicalPrograms
    /\ \E checks \in BOOLEAN : tr_env' = Exec(tr_body, tr_env, checks)
    /\ tr_pc' = "ran"
    /\ UNCHANGED <<tr_use, tr_prog, tr_x0, tr_out, tr_body, wsVars, spVars, tuVars, otherVars>>


\* ---- translate: the top-level declarations ----

\* CDeclKind::Function; a declaration without a body has has_body FALSE.
FunctionDecl(is_extern, name, parameters, has_body, body) ==
    [k |-> "Function", is_extern |-> is_extern, name |-> name,
     parameters |-> parameters, has_body |-> has_body, body |-> body]

\* CDeclKind::Struct; an anonymous struct has named FALSE.
StructDecl(named, name, fields) ==
    [k |-> "Struct", named |-> named, name |-> name, fields |-> fields]

\* CDeclKind::Typedef
TypedefDecl(name, typ) == [k |-> "Typedef", name |-> name, typ |-> typ]

\* CDeclKind::get_name
get_name(decl) == IF decl.k = "Struct" /\ ~decl.named THEN {} ELSE {decl.name}

\* panic!(msg) in the translator: the translation unwinds.
panic_with(msg) == [k |-> "Mac", name |-> "panic: " \o msg]

\* Some node of the statements is where the translator hit panic! or
\* unimplemented!: the call that was building them never returned.
Unwinds(stmts) ==
    \E nodes \in {NodesOfAll(stmts)} :
        \E j \in 1..Len(nodes) : nodes[j].k = "Mac" /\ nodes[j].name # "panic"

struct_item(name, fields) == [k |-> "StructItem", name |-> name, fields |-> fields]
fn_item(is_extern, name, decl, block) ==
    [k |-> "FnItem", no_mangle_pub_extern_c |-> is_extern,
     name |-> name, decl |-> decl, block |-> block]
foreign_fn(name, decl) ==
    [k |-> "ForeignItems", items |-> <<[k |-> "ForeignFn", name |-> name, decl |-> decl]>>]
type_item(name, ty) == [k |-> "TypeItem", name |-> name, ty |-> ty]

\* Translation::convert_function_body
convert_function_body(body, n) ==
    Only({ Res(stmts_block(ws.stmts), panic_expr, ws.n)
           : ws \in {convert_stmts(body, n)} })

\* Translation::convert_function
convert_function(is_extern, name, arguments, return_type, has_body, body, n) ==
    LET args == [j \in 1..Len(arguments) |->
                    [pat |-> arguments[j], ty |-> convert_type(Decls[arguments[j]].ctype)]]
        decl == [args |-> args, ret |-> convert_type(return_type)]
    IN IF ~has_body THEN Res(<<>>, foreign_fn(name, decl), n)
       ELSE Only({
            IF Unwinds(block.stmts)
            THEN Res(<<>>, panic_with("unwinding from convert_function_body"), block.n)
            ELSE Res(<<>>, fn_item(is_extern, name, decl, block.stmts), block.n)
            : block \in {convert_function_body(body, n)} })

\* Translation::convert_decl on a struct, a function or a typedef
convert_decl(toplevel, decl, n) ==
    CASE decl.k = "Struct" ->
            IF decl.named
            THEN Res(<<>>, struct_item(decl.name,
                                       [j \in 1..Len(decl.fields) |->
                                           [name |-> decl.fields[j],
                                            ty |-> convert_type(Decls[decl.fields[j]].ctype)]]), n)
            ELSE Res(<<>>, panic_with("Anonymous struct declarations not implemented"), n)
      [] decl.k = "Function" /\ ~toplevel ->
            Res(<<>>, panic_with("Function declarations must be top-level"), n)
      [] decl.k = "Function" /\ toplevel ->
            convert_function(decl.is_extern, decl.name, decl.parameters, "int",
                             decl.has_body, decl.body, n)
      [] decl.k = "Typedef" -> Res(<<>>, type_item(decl.name, convert_type(decl.typ)), n)
      [] OTHER -> Res(<<>>, unimplemented("decl"), n)

\* A loop that puts each new item in front of the items accumulated.
push_Front(items, item) == <<item>> \o items

\* t.items.push(item)
push(items, item) == Append(items, item)

\* What to_string prints first: #![feature(libc)] and extern crate libc.
Preamble == <<[k |-> "Attribute", name |-> "feature(libc)"],
              [k |-> "ExternCrate", name |-> "libc"]>>

\* The declarations a translation unit is made of, by CDeclId:
\*   int abs_(int x) { return x > 0 ? x : -x; }
\*   static int twice(void) { y = x++; z = x++; }
\*   int f(void);
\*   typedef unsigned u32;
\*   struct pt { int x; int y; };
\*   static int h(int x) { (union-cast) x; }    -- CastKind::ToUnion
\*   struct { int x; };                          -- anonymous
\*   static void k(void) { <complex> x; }        -- a complex-number cast
TopDecls ==
    << FunctionDecl(TRUE, "abs_", <<"x">>, TRUE, ReturnAbs),
      FunctionDecl(FALSE, "twice", <<>>, TRUE, TwoPostIncrements),
      FunctionDecl(TRUE, "f", <<>>, FALSE, <<>>),
      TypedefDecl("u32", "uint"),
      StructDecl(TRUE, "pt", <<"x", "y">>),
      FunctionDecl(FALSE, "h", <<"x">>, TRUE, <<ImplicitCast(IntTy, Rvalue(Var("x")), "ToUnion")>>),
      StructDecl(FALSE, "", <<"x">>),
      FunctionDecl(FALSE, "k", <<>>, TRUE,
                   <<ImplicitCast(IntTy, Rvalue(Var("x")), "IntegralRealToComplex")>>) >>

\* CDeclId: the ids of the declarations
DeclIds == 1..Len(TopDecls)

\* TypedAstContext::index on a CDeclId
index(decl_id) == TopDecls[decl_id]

\* The declarations translate can translate.
Supported(decl_id) == convert_decl(TRUE, index(decl_id), 0).val.k # "Mac"

\* Translation::new on the translation unit
InitTranslateUnit ==
    /\ tu_decls \in SeqsUpTo(DeclIds, MaxDecls)
    /\ tu_renamer = [names |-> {}, n |-> 0]
    /\ tu_items = <<>>
    /\ tu_out = <<>>
    /\ tu_pc = "names"

\* translate: the loop that populates the renamer with the top-level names
PopulateRenamer ==
    /\ tu_pc = "names"
    /\ tu_renamer' = [tu_renamer EXCEPT
                         !.names = UNION {get_name(index(tu_decls[j])) : j \in 1..Len(tu_decls)}]
    /\ tu_pc' = "decls"
    /\ UNCHANGED <<tu_decls, tu_items, tu_out, wsVars, spVars, trVars, otherVars>>

\* translate: one turn of the loop over c_decls_top. A panic inside
\* convert_decl (a macro in place of the item) is caught nowhere: it unwinds
\* out of translate, which pushes nothing more and prints nothing.
ConvertDecl ==
    /\ tu_pc = "decls"
    /\ Len(tu_items) < Len(tu_decls)
    /\ \E item \in {convert_decl(TRUE, index(tu_decls[Len(tu_items) + 1]), tu_renamer.n)} :
          IF item.val.k = "Mac"
          THEN /\ tu_pc' = "panicked"
               /\ UNCHANGED <<tu_items, tu_renamer>>
          ELSE /\ tu_items' = push(tu_items, item.val)
               /\ tu_renamer' = [tu_renamer EXCEPT !.n = item.n]
               /\ tu_pc' = "decls"
    /\ UNCHANGED <<tu_decls, tu_out, wsVars, spVars, trVars, otherVars>>

\* translate: to_string prints the preamble and the items accumulated.
PrintItems ==
    /\ tu_pc = "decls"
    /\ Len(tu_items) = Len(tu_decls)
    /\ tu_out' = Preamble \o tu_items
    /\ tu_pc' = "done"
    /\ UNCHANGED <<tu_decls, tu_renamer, tu_items, wsVars, spVars, trVars, otherVars>>



\* ---- the renamer's scopes during the translation of statements ----

\* Option::None
None == [k |-> "None"]

\* CStmtKind, and CDeclKind::Variable
Empty == [k |-> "Empty"]
DeclsStmt(decls) == [k |-> "Decls", decls |-> decls]
Variable(ident, is_static, initializer) ==
    [k |-> "Variable", ident |-> ident, is_static |-> is_static, initializer |-> initializer]
ExprStmt(e) == [k |-> "Expr", e |-> e]
Compound(stmts) == [k |-> "Compound", stmts |-> stmts]
ForLoop(init, condition, increment, body) ==
    [k |-> "ForLoop", init |-> init, condition |-> condition, increment |-> increment,
     body |-> body]
IfStmt(scrutinee, true_variant, false_variant) ==
    [k |-> "If", scrutinee |-> scrutinee, true_variant |-> true_variant,
     false_variant |-> false_variant]
While(condition, body) == [k |-> "While", condition |-> condition, body |-> body]
DoWhile(body, condition) == [k |-> "DoWhile", body |-> body, condition |-> condition]
Break == [k |-> "Break"]
\* a statement kind convert_stmt does not implement
Switch == [k |-> "Switch"]

\* The Renamer: the stack of scopes, each the set of the C names bound in it,
\* the count of fresh names handed out, and (history) the add_scope and
\* drop_scope calls made on it.
Renamer(scopes, n) == [scopes |-> scopes, n |-> n, calls |-> <<>>]

\* Renamer::add_scope
add_scope(r) == [r EXCEPT !.scopes = Append(@, {}), !.calls = Append(@, "add_scope")]

\* Renamer::drop_scope
drop_scope(r) ==
    [r EXCEPT !.scopes = SubSeq(@, 1, Len(@) - 1), !.calls = Append(@, "drop_scope")]

\* Renamer::insert: None, and no binding, when the name is bound in the
\* innermost scope.
insert(r, name) ==
    IF name \in r.scopes[Len(r.scopes)] THEN [some |-> FALSE, r |-> r]
    ELSE [some |-> TRUE, r |-> [r EXCEPT !.scopes[Len(r.scopes)] = @ \cup {name}]]

\* The names Renamer::get resolves.
Visible(r) == UNION {r.scopes[j] : j \in 1..Len(r.scopes)}

\* What the translation of a statement returns, with the renamer it leaves;
\* failed when a panic! or unimplemented! unwound out of it.
SRes(stmts, r, failed) == [stmts |-> stmts, r |-> r, failed |-> failed]

\* The translation of an expression with the renamer r.
ExprIn(res, r) == SRes(res.stmts, [r EXCEPT !.n = res.n], Unwinds(Append(res.stmts, res.val)))

\* Translation::convert_decl_stmt
convert_decl_stmt(decl, r) ==
    IF ~decl.is_static
    THEN \* a local variable
         LET ins == insert(r, decl.ident)
         IN IF ~ins.some THEN SRes(<<>>, r, TRUE)
            ELSE IF decl.initializer = None
            THEN SRes(<<local_stmt(FALSE, decl.ident, None)>>, ins.r, FALSE)
            ELSE Only({ SRes(Append(init.stmts, local_stmt(FALSE, decl.ident, init.val)),
                             [ins.r EXCEPT !.n = init.n],
                             Unwinds(Append(init.stmts, init.val)))
                        : init \in {convert_expr("RValue", decl.initializer, ins.r.n)} })
    ELSE \* a static variable: skipped when the name is already bound, else
         \* the static item convert_decl makes of it, zero-initialized when
         \* it has no initializer
         LET ins == insert(r, decl.ident)
             ty == convert_type("int")
         IN IF ~ins.some THEN SRes(<<>>, r, FALSE)
            ELSE IF decl.initializer = None
            THEN SRes(<<item_stmt(static_item(decl.ident, ty, implicit_default_expr("int")))>>,
                      ins.r, FALSE)
            ELSE Only({ SRes(<<item_stmt(static_item(decl.ident, ty, to_expr(init)))>>,
                             [ins.r EXCEPT !.n = init.n],
                             Unwinds(Append(init.stmts, init.val)))
                        : init \in {convert_expr("RValue", decl.initializer, ins.r.n)} })

RECURSIVE scoped_stmt(_, _)
RECURSIVE scoped_stmts(_, _)
RECURSIVE convert_for_stmt(_, _, _, _, _)

\* stmts.iter().flat_map(|stmt| self.convert_stmt(*stmt)).collect(), and the
\* like loop over the declarations of a Decls statement
scoped_stmts(stmts, r) ==
    IF stmts = <<>> THEN SRes(<<>>, r, FALSE)
    ELSE Only({
            IF hd.failed THEN hd
            ELSE Only({ SRes(hd.stmts \o tl.stmts, tl.r, tl.failed)
                        : tl \in {scoped_stmts(Tail(stmts), hd.r)} })
            : hd \in {IF Head(stmts).k = "Variable" THEN convert_decl_stmt(Head(stmts), r)
                      ELSE scoped_stmt(Head(stmts), r)} })

\* convert_for_stmt without its drop_scope.
convert_for_stmt_NoDrop(init_id, cond_id, inc_id, body_id, r) ==
    Only({ Only({ Only({
        IF init.failed THEN init ELSE IF inc.failed THEN inc ELSE IF body.failed THEN body
        ELSE LET body_block == stmts_block(body.stmts \o inc.stmts)
             IN Only({
                 SRes(<<expr_stmt(block_expr(Append(init.stmts, expr_stmt(
                         IF cond_id = None THEN loop_expr(body_block)
                         ELSE while_expr(to_expr(cond), body_block)))))>>,
                      [body.r EXCEPT !.n = cond.n], FALSE)
                 : cond \in {IF cond_id = None THEN Res(<<>>, None, body.r.n)
                             ELSE convert_condition(TRUE, cond_id, body.r.n)} })
        : body \in {IF init.failed \/ inc.failed THEN inc ELSE scoped_stmt(body_id, inc.r)} })
        : inc \in {IF init.failed \/ inc_id = None THEN SRes(<<>>, init.r, FALSE)
                   ELSE ExprIn(convert_expr("Unused", inc_id, init.r.n), init.r)} })
        : init \in {IF init_id = None THEN SRes(<<>>, add_scope(r), FALSE)
                    ELSE scoped_stmt(init_id, add_scope(r))} })

\* Translation::convert_for_stmt
convert_for_stmt(init_id, cond_id, inc_id, body_id, r) ==
    Only({ Only({ Only({
        IF init.failed THEN init ELSE IF inc.failed THEN inc ELSE IF body.failed THEN body
        ELSE LET body_block == stmts_block(body.stmts \o inc.stmts)
             IN Only({
                 SRes(<<expr_stmt(block_expr(Append(init.stmts, expr_stmt(
                         IF cond_id = None THEN loop_expr(body_block)
                         ELSE while_expr(to_expr(cond), body_block)))))>>,
                      drop_scope([body.r EXCEPT !.n = cond.n]), FALSE)
                 : cond \in {IF cond_id = None THEN Res(<<>>, None, body.r.n)
                             ELSE convert_condition(TRUE, cond_id, body.r.n)} })
        : body \in {IF init.failed \/ inc.failed THEN inc ELSE scoped_stmt(body_id, inc.r)} })
        : inc \in {IF init.failed \/ inc_id = None THEN SRes(<<>>, init.r, FALSE)
                   ELSE ExprIn(convert_expr("Unused", inc_id, init.r.n), init.r)} })
        : init \in {IF init_id = None THEN SRes(<<>>, add_scope(r), FALSE)
                    ELSE scoped_stmt(init_id, add_scope(r))} })

\* Translation::convert_stmt, the renamer threaded through it
scoped_stmt(stmt, r) ==
    CASE stmt.k = "Empty" -> SRes(<<>>, r, FALSE)
      [] stmt.k = "Decls" -> scoped_stmts(stmt.decls, r)
      [] stmt.k = "Return" -> ExprIn(convert_return_stmt(stmt.e, r.n), r)
      [] stmt.k = "If" ->
            \* convert_if_stmt
            Only({ Only({ Only({
                IF then.failed THEN then ELSE IF els.failed THEN els
                ELSE SRes(Append(cond.stmts,
                                 semi_stmt(ifte_expr(cond.val, stmts_block(then.stmts),
                                     IF stmt.false_variant = None THEN None
                                     ELSE block_expr(stmts_block(els.stmts))))),
                          els.r, FALSE)
                : els \in {IF then.failed \/ stmt.false_variant = None
                           THEN SRes(<<>>, then.r, FALSE)
                           ELSE scoped_stmt(stmt.false_variant, then.r)} })
                : then \in {scoped_stmt(stmt.true_variant, [r EXCEPT !.n = cond.n])} })
                : cond \in {convert_condition(TRUE, stmt.scrutinee, r.n)} })
      [] stmt.k = "While" ->
            \* convert_while_stmt
            Only({ Only({
                IF body.failed THEN body
                ELSE SRes(<<expr_stmt(while_expr(to_expr(cond), stmts_block(body.stmts)))>>,
                          body.r, FALSE)
                : body \in {scoped_stmt(stmt.body, [r EXCEPT !.n = cond.n])} })
                : cond \in {convert_condition(TRUE, stmt.condition, r.n)} })
      [] stmt.k = "DoWhile" ->
            \* convert_do_stmt
            Only({ Only({
                IF body.failed THEN body
                ELSE LET break_stmt == semi_stmt(break_expr)
                         test == expr_stmt(ifte_expr(to_expr(cond), <<break_stmt>>, None))
                     IN SRes(<<semi_stmt(loop_expr(stmts_block(Append(body.stmts, test))))>>,
                             body.r, FALSE)
                : body \in {scoped_stmt(stmt.body, [r EXCEPT !.n = cond.n])} })
                : cond \in {convert_condition(FALSE, stmt.condition, r.n)} })
      [] stmt.k = "ForLoop" ->
            convert_for_stmt(stmt.init, stmt.condition, stmt.increment, stmt.body, r)
      [] stmt.k = "Compound" ->
            Only({
                IF stmts.failed THEN stmts
                ELSE SRes(<<expr_stmt(block_expr(stmts_block(stmts.stmts)))>>,
                          drop_scope(stmts.r), FALSE)
                : stmts \in {scoped_stmts(stmt.stmts, add_scope(r))} })
      [] stmt.k = "Expr" -> ExprIn(convert_expr("Unused", stmt.e, r.n), r)
      [] stmt.k = "Break" -> SRes(<<expr_stmt(break_expr)>>, r, FALSE)
      [] OTHER -> SRes(<<>>, r, TRUE)

\* Translation::convert_function_body, the renamer threaded through it
scoped_function_body(body, r) ==
    IF body.k # "Compound" THEN SRes(<<>>, add_scope(r), TRUE)
    ELSE Only({
            IF stmts.failed THEN stmts
            ELSE SRes(stmts_block(stmts.stmts), drop_scope(stmts.r), FALSE)
            : stmts \in {scoped_stmts(body.stmts, add_scope(r))} })

RECURSIVE insert_arguments(_, _)
\* The loop of convert_function over the parameters: each is inserted, and a
\* failed insertion panics.
insert_arguments(arguments, r) ==
    IF arguments = <<>> THEN [some |-> TRUE, r |-> r]
    ELSE LET ins == insert(r, Head(arguments))
         IN IF ins.some THEN insert_arguments(Tail(arguments), ins.r) ELSE ins

\* Translation::convert_function, the renamer threaded through it; the item
\* is the only statement of the result.
scoped_function(decl, r) ==
    LET inserted == insert_arguments(decl.parameters, add_scope(r))
        args == [j \in 1..Len(decl.parameters) |->
                    [pat |-> decl.parameters[j], ty |-> convert_type("int")]]
        fn_decl == [args |-> args, ret |-> convert_type("int")]
    IN IF ~inserted.some THEN SRes(<<>>, inserted.r, TRUE)
       ELSE IF ~decl.has_body
       THEN SRes(<<foreign_fn(decl.name, fn_decl)>>, drop_scope(inserted.r), FALSE)
       ELSE Only({
               IF block.failed THEN block
               ELSE SRes(<<fn_item(decl.is_extern, decl.name, fn_decl, block.stmts)>>,
                         drop_scope(block.r), FALSE)
               : block \in {scoped_function_body(decl.body, inserted.r)} })

\* int t;   int i = 1;   static int s, s = 1;   x++;   x > 0
DeclT == DeclsStmt(<<Variable("t", FALSE, None)>>)
DeclI == DeclsStmt(<<Variable("i", FALSE, Literal(1))>>)
DeclS == DeclsStmt(<<Variable("s", TRUE, None), Variable("s", TRUE, Literal(1))>>)
IncX == ExprStmt(IncDec("PostIncrement", Var("x")))
XPositive == Binary(IntTy, "Greater", Rvalue(Var("x")), Literal(0))

\* {}   { int t; x++; }   { int t; { int t; x++; } int i = 1; }
\* { int t; switch ... }   { int t; int t; }   { { static int s; } }
Blocks ==
    { Compound(<<>>), Compound(<<DeclT, IncX>>),
      Compound(<<DeclT, Compound(<<DeclT, IncX>>), DeclI>>),
      Compound(<<DeclT, Switch>>), Compound(<<DeclT, DeclT>>),
      Compound(<<Compound(<<DeclS>>)>>) }

\* for (init; cond; inc) body
ForLoops ==
    { ForLoop(init, cond, inc, body) :
        init \in {None, DeclI, IncX}, cond \in {None, XPositive},
        inc \in {None, IncDec("PostIncrement", Var("x"))},
        body \in Blocks \cup {IncX, Break} }

\* The statements translated: blocks, loops, conditionals, and blocks of them
ScopedStmts ==
    Blocks \cup ForLoops \cup {DeclT, DeclI, DeclS, IncX, Empty, Break, Switch}
    \cup {IfStmt(XPositive, b, e) : b \in Blocks, e \in {None, Compound(<<DeclT, IncX>>)}}
    \cup {While(XPositive, b) : b \in Blocks} \cup {DoWhile(b, XPositive) : b \in Blocks}
    \cup {Compound(<<f, DeclT, f>>) : f \in ForLoops}
    \cup {ForLoop(DeclI, None, None, f) : f \in ForLoops}

\* The functions translated: with and without a body, of no, one or two
\* parameters, or of two parameters of one name
ScopedFunctions ==
    { FunctionDecl(is_extern, "fn", parameters, has_body, body) :
        is_extern \in BOOLEAN, parameters \in {<<>>, <<"x">>, <<"x", "t">>, <<"x", "x">>},
        has_body \in BOOLEAN,
        body \in { Compound(<<DeclT, f>>) : f \in {ForLoop(DeclI, XPositive, None, b) : b \in Blocks} }
                 \cup {IncX} }

\* The renamer holds the top-level names; within a function it holds the
\* parameters' scope and the body's scope as well.
InitScopes ==
    /\ \/ /\ sc_pc = "function"
          /\ sc_src \in ScopedFunctions
          /\ sc_renamer = Renamer(<<{"x", "fn"}>>, 0)
       \/ /\ sc_pc = "stmt"
          /\ sc_src \in ScopedStmts
          /\ sc_renamer \in {Renamer(<<{"x", "fn"}, {}, locals>>, n) :
                               locals \in {{}, {"t"}}, n \in 0..1}
    /\ sc_out = SRes(<<>>, sc_renamer, FALSE)

\* convert_decl translates a function declaration.
ConvertFunction ==
    /\ sc_pc = "function"
    /\ sc_out' = scoped_function(sc_src, sc_renamer)
    /\ sc_pc' = "done"
    /\ UNCHANGED <<sc_src, sc_renamer, wsVars, spVars, trVars, tuVars, biVars, mlVars, lateVars>>

\* convert_stmt translates a statement of a function body.
ConvertStatement ==
    /\ sc_pc = "stmt"
    /\ sc_out' = scoped_stmt(sc_src, sc_renamer)
    /\ sc_pc' = "done"
    /\ UNCHANGED <<sc_src, sc_renamer, wsVars, spVars, trVars, tuVars, biVars, mlVars, lateVars>>

\* ---- the lowering of calls to builtin functions (builtins.rs) ----

\* A builtin's name is a string the code searches and slices: here a
\* sequence of characters.
starts_with(s, pat) == Len(s) >= Len(pat) /\ SubSeq(s, 1, Len(pat)) = pat
contains(s, pat) == \E i \in 1..(Len(s) - Len(pat) + 1) : SubSeq(s, i, i + Len(pat) - 1) = pat

\* "__builtin_"
BuiltinPrefix == <<"_", "_", "b", "u", "i", "l", "t", "i", "n", "_">>

\* The memory and string functions of the C library with the number of
\* arguments of their C prototype and the position of the size_t argument
\* (0 when there is none).
LibcFns ==
    { [base |-> <<"m", "e", "m", "c", "p", "y">>, arity |-> 3, len |-> 3],
      [base |-> <<"m", "e", "m", "c", "h", "r">>, arity |-> 3, len |-> 3],
      [base |-> <<"m", "e", "m", "c", "m", "p">>, arity |-> 3, len |-> 3],
      [base |-> <<"m", "e", "m", "m", "o", "v", "e">>, arity |-> 3, len |-> 3],
      [base |-> <<"m", "e", "m", "s", "e", "t">>, arity |-> 3, len |-> 3],
      [base |-> <<"s", "t", "r", "c", "a", "t">>, arity |-> 2, len |-> 0],
      [base |-> <<"s", "t", "r", "n", "c", "a", "t">>, arity |-> 3, len |-> 3],
      [base |-> <<"s", "t", "r", "c", "h", "r">>, arity |-> 2, len |-> 0],
      [base |-> <<"s", "t", "r", "c", "m", "p">>, arity |-> 2, len |-> 0],
      [base |-> <<"s", "t", "r", "n", "c", "m", "p">>, arity |-> 3, len |-> 3],
      [base |-> <<"s", "t", "r", "c", "p", "y">>, arity |-> 2, len |-> 0],
      [base |-> <<"s", "t", "r", "n", "c", "p", "y">>, arity |-> 3, len |-> 3],
      [base |-> <<"s", "t", "r", "c", "s", "p", "n">>, arity |-> 2, len |-> 0],
      [base |-> <<"s", "t", "r", "d", "u", "p">>, arity |-> 1, len |-> 0],
      [base |-> <<"s", "t", "r", "n", "d", "u", "p">>, arity |-> 2, len |-> 2],
      [base |-> <<"s", "t", "r", "l", "e", "n">>, arity |-> 1, len |-> 0],
      [base |-> <<"s", "t", "r", "n", "l", "e", "n">>, arity |-> 2, len |-> 2],
      [base |-> <<"s", "t", "r", "p", "b", "r", "k">>, arity |-> 2, len |-> 0],
      [base |-> <<"s", "t", "r", "r", "c", "h", "r">>, arity |-> 2, len |-> 0],
      [base |-> <<"s", "t", "r", "s", "p", "n">>, arity |-> 2, len |-> 0],
      [base |-> <<"s", "t", "r", "s", "t", "r">>, arity |-> 2, len |-> 0] }

\* The builtin names of the arm that calls convert_libc_fns
LibcBuiltinNames == {BuiltinPrefix \o fn.base : fn \in LibcFns}

\* "add", "sub", "mul"
OverflowOps == {<<"a", "d", "d">>, <<"s", "u", "b">>, <<"m", "u", "l">>}

\* The builtin names of one overflow arm: __builtin_<op>_overflow and
\* __builtin_{s,u}<op>{,l,ll}_overflow
OverflowNames(op) ==
    {BuiltinPrefix \o op \o <<"_", "o", "v", "e", "r", "f", "l", "o", "w">>}
    \cup {BuiltinPrefix \o sg \o op \o wd \o <<"_", "o", "v", "e", "r", "f", "l", "o", "w">> :
            sg \in {<<"s">>, <<"u">>}, wd \in {<<>>, <<"l">>, <<"l", "l">>}}

\* "add", "sub", "or", "and", "xor", "nand"
AtomicOps == {<<"a", "d", "d">>, <<"s", "u", "b">>, <<"o", "r">>, <<"a", "n", "d">>, <<"x", "o", "r">>, <<"n", "a", "n", "d">>}
\* "1", "2", "4", "8", "16"
AtomicWidths == {<<"1">>, <<"2">>, <<"4">>, <<"8">>, <<"1", "6">>}

\* __sync_fetch_and_<op>_<n>
FetchAndOpName(op, wd) == <<"_", "_", "s", "y", "n", "c", "_", "f", "e", "t", "c", "h", "_", "a", "n", "d", "_">> \o op \o <<"_">> \o wd
\* __sync_<op>_and_fetch_<n>
OpAndFetchName(op, wd) == <<"_", "_", "s", "y", "n", "c", "_">> \o op \o <<"_", "a", "n", "d", "_", "f", "e", "t", "c", "h", "_">> \o wd

\* The builtin names of the __sync fetch/op arm
SyncNames ==
    {FetchAndOpName(op, wd) : op \in AtomicOps, wd \in AtomicWidths}
    \cup {OpAndFetchName(op, wd) : op \in AtomicOps, wd \in AtomicWidths}

\* Result<WithStmts<P<Expr>>, TranslationError>
Ok(ws) == [ok |-> TRUE, stmts |-> ws.stmts, val |-> ws.val, n |-> ws.n]
Err(msg) == [ok |-> FALSE, msg |-> msg]

\* Translation::convert_exprs in the context ctx.used(): the expressions are
\* translated for their values from left to right, their statements
\* collected in that order.
convert_exprs(exprs, n) == convert_args(exprs, n)

\* Translation::convert_atomic_op, kept as the node it is asked to build.
convert_atomic_op(func_name, dst, src, fetch_first, n) ==
    Ok(Res(<<>>, [k |-> "AtomicOp", func |-> func_name, dst |-> dst, src |-> src,
                  fetch_first |-> fetch_first], n))

\* convert_overflow_arith storing through the pointer before the binding.
convert_overflow_arith_StoreFirst(method_name, args, n) ==
    Only({
        LET sum_name == fresh(a.n)
            over_name == fresh(a.n + 1)
            overflow_let == local_tuple_stmt(<<sum_name, over_name>>,
                                             method_call_expr(a.val[1], method_name, <<a.val[2]>>))
            out_assign == assign_expr(unary_expr("Deref", a.val[3]), path_expr(sum_name))
        IN Ok(Res(a.stmts \o <<expr_stmt(out_assign), overflow_let>>, path_expr(over_name),
                  a.n + 2))
        : a \in {convert_exprs(args, n)} })

\* Translation::convert_overflow_arith
convert_overflow_arith(method_name, args, n) ==
    Only({
        IF Len(a.val) < 1 THEN Err("Missing first argument to convert_overflow_arith")
        ELSE IF Len(a.val) < 2 THEN Err("Missing second argument to convert_overflow_arith")
        ELSE IF Len(a.val) < 3 THEN Err("Missing third argument to convert_overflow_arith")
        ELSE LET overflowing == method_call_expr(a.val[1], method_name, <<a.val[2]>>)
                 sum_name == fresh(a.n)
                 over_name == fresh(a.n + 1)
                 overflow_let == local_tuple_stmt(<<sum_name, over_name>>, overflowing)
                 out_assign == assign_expr(unary_expr("Deref", a.val[3]), path_expr(sum_name))
             IN Ok(Res(a.stmts \o <<overflow_let, expr_stmt(out_assign)>>,
                       path_expr(over_name), a.n + 2))
        : a \in {convert_exprs(args, n)} })

\* Translation::convert_libc_fns
convert_libc_fns(builtin_name, used, args, n) ==
    LET name == SubSeq(builtin_name, 11, Len(builtin_name))
        mem == path_segments_expr(<<<<"l", "i", "b", "c">>, name>>)
    IN Only({
        IF Len(a.val) < 1 THEN Err("Missing dst argument to convert_libc_fns")
        ELSE IF Len(a.val) < 2 THEN Err("Missing c argument to convert_libc_fns")
        ELSE IF Len(a.val) < 3 THEN Err("Missing len argument to convert_libc_fns")
        ELSE LET size_t == path_ty("libc::size_t")
                 len1 == cast_expr(a.val[3], size_t)
                 mem_expr == call_expr(mem, <<a.val[1], a.val[2], len1>>)
             IN IF used THEN Ok(Res(a.stmts, mem_expr, a.n))
                ELSE Ok(Res(Append(a.stmts, semi_stmt(mem_expr)), panic_expr, a.n))
        : a \in {convert_exprs(args, n)} })

\* The choice of the intrinsic in the __sync fetch/op arm.
func_name_AndFirst(builtin_name) ==
    IF contains(builtin_name, <<"_", "a", "n", "d", "_">>) THEN "atomic_and"
    ELSE IF contains(builtin_name, <<"_", "a", "d", "d", "_">>) THEN "atomic_xadd"
    ELSE "atomic_xsub"

\* The intrinsic the __sync fetch/op arm chooses by searching the name.
func_name(builtin_name) ==
    IF contains(builtin_name, <<"_", "a", "d", "d", "_">>) THEN "atomic_xadd"
    ELSE IF contains(builtin_name, <<"_", "s", "u", "b", "_">>) THEN "atomic_xsub"
    ELSE IF contains(builtin_name, <<"_", "o", "r", "_">>) THEN "atomic_or"
    ELSE IF contains(builtin_name, <<"_", "x", "o", "r", "_">>) THEN "atomic_xor"
    ELSE IF contains(builtin_name, <<"_", "n", "a", "n", "d", "_">>) THEN "atomic_nand"
    ELSE "atomic_and"

\* Translation::convert_builtin: the arms of the memory and string
\* functions, of the overflow-checked arithmetic and of the __sync fetch/op
\* functions, and the arm of a name that is not in the table.
convert_builtin(used, builtin_name, args, n) ==
    CASE builtin_name \in LibcBuiltinNames -> convert_libc_fns(builtin_name, used, args, n)
      [] builtin_name \in OverflowNames(<<"a", "d", "d">>) ->
            convert_overflow_arith("overflowing_add", args, n)
      [] builtin_name \in OverflowNames(<<"s", "u", "b">>) ->
            convert_overflow_arith("overflowing_sub", args, n)
      [] builtin_name \in OverflowNames(<<"m", "u", "l">>) ->
            convert_overflow_arith("overflowing_mul", args, n)
      [] builtin_name \in SyncNames ->
            Only({ Only({
                LET fetch_first == starts_with(builtin_name, <<"_", "_", "s", "y", "n", "c", "_", "f", "e", "t", "c", "h">>)
                IN Only({
                    IF op.ok THEN Ok(Res(arg0.stmts \o arg1.stmts \o op.stmts, op.val, op.n))
                    ELSE op
                    : op \in {convert_atomic_op(func_name(builtin_name), arg0.val, arg1.val,
                                                fetch_first, arg1.n)} })
                : arg1 \in {convert_expr("RValue", args[2], arg0.n)} })
                : arg0 \in {convert_expr("RValue", args[1], n)} })
      [] OTHER -> Err("Unimplemented builtin")

\* The arguments of the builtin calls: x, p, f() and (y = z)
BuiltinArgs ==
    { Rvalue(Var("x")), Rvalue(Var("p")), CallF,
      Assignment("Assign", Var("y"), Rvalue(Var("z"))) }

\* A builtin that is not in the table: __builtin_foo
UnknownBuiltin == BuiltinPrefix \o <<"f", "o", "o">>

\* The number of arguments clang accepts the builtin with.
Arity(builtin_name) ==
    IF builtin_name \in LibcBuiltinNames
    THEN (CHOOSE fn \in LibcFns : BuiltinPrefix \o fn.base = builtin_name).arity
    ELSE IF builtin_name \in SyncNames THEN 2
    ELSE IF builtin_name = UnknownBuiltin THEN 1
    ELSE 3

BuiltinNames ==
    LibcBuiltinNames \cup UNION {OverflowNames(op) : op \in OverflowOps} \cup SyncNames
    \cup {UnknownBuiltin}

NoBuiltinResult == Err("")

\* A call of a builtin with as many arguments as its prototype declares.
InitBuiltin ==
    /\ bi_name \in BuiltinNames
    /\ bi_args \in {args \in SeqsUpTo(BuiltinArgs, MaxArgs) : Len(args) = Arity(bi_name)}
    /\ bi_used \in BOOLEAN
    /\ bi_out = NoBuiltinResult
    /\ bi_pc = "call"

\* convert_expr's Call arm hands the call of a builtin to convert_builtin.
ConvertBuiltin ==
    /\ bi_pc = "call"
    /\ bi_out' = convert_builtin(bi_used, bi_name, bi_args, 0)
    /\ bi_pc' = "done"
    /\ UNCHANGED <<bi_name, bi_args, bi_used, wsVars, spVars, trVars, tuVars, mlVars, scVars, lateVars>>


\* ---- the runtime's table of MIR locations (mir_loc.rs) ----

\* The span files on disk: the locs of the Metadata each deserializes to.
\* No file is at path "c".
SpanFiles == [a |-> <<10, 11>>, b |-> <<20>>]
Paths == {"a", "b", "c"}

\* The lazy static MIR_LOCS
Uninit == [state |-> "uninit", locs |-> <<>>, loads |-> 0]

\* The initializer of MIR_LOCS: the path is read and cloned, the file opened
\* and deserialized; a failing expect poisons the static.
load(path, loads) ==
    IF path = "None" \/ path \notin DOMAIN SpanFiles
    THEN [state |-> "poisoned", locs |-> <<>>, loads |-> loads + 1]
    ELSE [state |-> "loaded", locs |-> SpanFiles[path], loads |-> loads + 1]

\* A dereference of MIR_LOCS that runs the initializer every time.
deref_Reload(lazy, path) == load(path, lazy.loads)

\* A dereference of MIR_LOCS (lazy_static): the initializer runs on the first
\* dereference only.
deref(lazy, path) == IF lazy.state = "uninit" THEN load(path, lazy.loads) ELSE lazy

InitMirLoc ==
    /\ ml_path = "None"
    /\ ml_locs = Uninit
    /\ ml_index = 0
    /\ ml_pc = "ready"
    /\ ml_log = <<>>

\* set_file
SetFile ==
    /\ Len(ml_log) < MaxCalls
    /\ \E file_path \in Paths :
          /\ ml_path' = file_path
          /\ ml_log' = Append(ml_log, [call |-> "set_file", path |-> file_path, index |-> 0, ret |-> "()"])
    /\ UNCHANGED <<ml_locs, ml_index, ml_pc, wsVars, spVars, trVars, tuVars, biVars, scVars, lateVars>>

\* get when MIR_LOC_FILE_PATH is None
GetNone ==
    /\ ml_pc = "ready" /\ Len(ml_log) < MaxCalls
    /\ ml_path = "None"
    /\ \E idx \in 0..1 :
          ml_log' = Append(ml_log, [call |-> "get", path |-> "", index |-> idx, ret |-> "None"])
    /\ UNCHANGED <<ml_path, ml_locs, ml_index, ml_pc, wsVars, spVars, trVars, tuVars, biVars, scVars, lateVars>>

\* get when MIR_LOC_FILE_PATH is Some: the read lock is released after the test.
GetCheck ==
    /\ ml_pc = "ready" /\ Len(ml_log) < MaxCalls
    /\ ml_path # "None"
    /\ \E idx \in 0..1 : ml_index' = idx
    /\ ml_pc' = "checked"
    /\ UNCHANGED <<ml_path, ml_locs, ml_log, wsVars, spVars, trVars, tuVars, biVars, scVars, lateVars>>

\* get, after the test: Some(&MIR_LOCS.locs[index]); the get panics when the
\* static is poisoned or the index is out of bounds.
GetRead ==
    /\ ml_pc = "checked"
    /\ \E lazy \in {deref(ml_locs, ml_path)} :
          /\ ml_locs' = lazy
          /\ ml_log' = Append(ml_log,
                [call |-> "get", path |-> "", index |-> ml_index,
                 ret |-> IF lazy.state = "loaded" /\ ml_index < Len(lazy.locs)
                         THEN ToString(lazy.locs[ml_index + 1]) ELSE "panic"])
    /\ ml_pc' = "ready"
    /\ UNCHANGED <<ml_path, ml_index, wsVars, spVars, trVars, tuVars, biVars, scVars, lateVars>>

\* ---- the instrumentation plugin (analysis/plugin/src/lib.rs) ----

\* HOOKED_FUNCTIONS
HOOKED_FUNCTIONS == {"malloc", "realloc"}

\* The items of a crate the folder visits: the fns and statics of extern
\* blocks, and fns with the expression of their body.
ForeignFn(ident) == [k |-> "ForeignFn", ident |-> ident]
ForeignStatic(ident) == [k |-> "ForeignStatic", ident |-> ident]
BodyFn(body) == [k |-> "Fn", body |-> body]

\* hooked_fn_name: the name of a callee that is a path of one segment naming
\* a hooked function, "None" for any other callee.
hooked_fn_name(callee, hooked_functions) ==
    IF callee.k = "Path" /\ callee.name \in hooked_functions
    THEN callee.name
    ELSE "None"

\* fold_foreign_item_simple: a foreign fn named in HOOKED_FUNCTIONS joins
\* hooked_functions.
fold_foreign_item_simple(item, hooked_functions) ==
    IF item.k = "ForeignFn" /\ item.ident \in HOOKED_FUNCTIONS
    THEN hooked_functions \cup {item.ident}
    ELSE hooked_functions

RECURSIVE fold_expr(_, _)
\* fold_expr: a call of a hooked fn becomes
\*   { let ret = <callee>(<folded args>); c2rust_analysis_rt::<name>(<folded
\*     args, each `as usize`>, ret as usize); ret }
\* every other expression is folded node by node (noop_fold_expr).
fold_expr(expr, hooked_functions) ==
    IF expr.k = "Call" /\ hooked_fn_name(expr.f, hooked_functions) # "None"
    THEN Only({
            LET runtime_args ==
                    [j \in 1..Len(args) |-> cast_expr(args[j], path_ty("usize"))]
                    \o <<cast_expr(path_expr("ret"), path_ty("usize"))>>
                call == call_expr(expr.f, args)
                hook_call ==
                    call_expr(path_segments_expr(
                                  <<"c2rust_analysis_rt",
                                    hooked_fn_name(expr.f, hooked_functions)>>),
                              runtime_args)
            IN block_expr(<<local_stmt(FALSE, "ret", call),
                            semi_stmt(hook_call),
                            expr_stmt(path_expr("ret"))>>)
            : args \in {[j \in 1..Len(expr.args) |->
                            fold_expr(expr.args[j], hooked_functions)]} })
    ELSE CASE expr.k = "Call" ->
                call_expr(fold_expr(expr.f, hooked_functions),
                          [j \in 1..Len(expr.args) |->
                              fold_expr(expr.args[j], hooked_functions)])
           [] expr.k = "Binary" ->
                binary_expr(expr.op, fold_expr(expr.l, hooked_functions),
                            fold_expr(expr.r, hooked_functions))
           [] expr.k \in {"Unary", "Cast", "Paren"} ->
                [expr EXCEPT !.e = fold_expr(expr.e, hooked_functions)]
           [] OTHER -> expr

\* The bodies folded: calls of hooked and of other fns, with arguments that
\* are variables, calls and hooked calls.
PluginExprs ==
    LET n == path_expr("n")
        p == path_expr("p")
        next == call_expr(path_expr("next"), <<>>)
        malloc(a) == call_expr(path_expr("malloc"), <<a>>)
    IN { malloc(n), malloc(next), malloc(malloc(n)),
         call_expr(path_expr("realloc"), <<p, next>>),
         call_expr(path_expr("free"), <<p>>),
         call_expr(path_segments_expr(<<"libc", "malloc">>), <<n>>),
         binary_expr("+", malloc(n), lit_expr(1)) }

PluginItems ==
    {ForeignFn(ident) : ident \in {"malloc", "realloc", "free"}}
    \cup {ForeignStatic("malloc")}
    \cup {BodyFn(body) : body \in PluginExprs}

\* A crate of up to MaxItems items, in any order.
InitPlugin ==
    /\ pl_items \in SeqsUpTo(PluginItems, MaxItems) \ {<<>>}
    /\ pl_hooked = {}
    /\ pl_out = <<>>

\* The folder reaches a foreign item.
FoldForeignItem ==
    /\ pl_items # <<>> /\ Head(pl_items).k \in {"ForeignFn", "ForeignStatic"}
    /\ pl_hooked' = fold_foreign_item_simple(Head(pl_items), pl_hooked)
    /\ pl_items' = Tail(pl_items)
    /\ UNCHANGED <<pl_out, wsVars, spVars, trVars, tuVars, biVars, mlVars, scVars, anVars>>

\* The folder reaches the body of a fn.
FoldExpr ==
    /\ pl_items # <<>> /\ Head(pl_items).k = "Fn"
    /\ pl_out' = Append(pl_out, [src |-> Head(pl_items).body,
                                 hooked |-> pl_hooked,
                                 out |-> fold_expr(Head(pl_items).body, pl_hooked)])
    /\ pl_items' = Tail(pl_items)
    /\ UNCHANGED <<pl_hooked, wsVars, spVars, trVars, tuVars, biVars, mlVars, scVars, anVars>>


\* ---- ownership_annotate (rust-refactor/src/transform/ownership.rs) ----

\* make_attr: an outer attribute `#[<name><tokens>]`; the token stream is
\* written as the sequence of its tokens, the delimiters of parens() included.
make_attr(name, tokens) == [name |-> name, tokens |-> tokens]

\* An item of the crate: a static, const, fn, struct with its fields, or mod
\* with its items. `marked` is st.marked(id, label).
Item(id, kind, marked, attrs, fields, items) ==
    [id |-> id, kind |-> kind, marked |-> marked, attrs |-> attrs,
     fields |-> fields, items |-> items]
StructField(id, marked, attrs) == [id |-> id, marked |-> marked, attrs |-> attrs]

\* static_attr_for: the ownership_static attribute of a static, const or field
\* the analysis has a type for (build_static_attr: the concrete permissions of
\* the type's labels, in order), none otherwise.
static_attr_for(ana_, id) ==
    IF id \in DOMAIN ana_.statics
    THEN <<make_attr("ownership_static",
                     <<"(">> \o SelectSeq(ana_.statics[id], LAMBDA p : p # "None")
                     \o <<")">>)>>
    ELSE <<>>

\* constraints_attr_for: the ownership_constraints attribute of a fn the
\* analysis has results for (build_constraints_attr: `le(a, b)` for each
\* constraint, separated by commas; the constraint sets of the model hold
\* concrete permissions and signature variables only).
constraints_attr_for(ana_, id) ==
    IF id \in DOMAIN ana_.fns
    THEN LET cset == ana_.fns[id].cset
             perm(p) == IF p.k = "Concrete" THEN p.p ELSE "_" \o ToString(p.v)
             le(j) == (IF j > 1 THEN <<",">> ELSE <<>>)
                      \o <<"le", "(", perm(cset[j][1]), ",", perm(cset[j][2]), ")">>
         IN <<make_attr("ownership_constraints",
                        <<"(">> \o Concat([j \in 1..Len(cset) |-> le(j)]) \o <<")">>)>>
    ELSE <<>>

\* push_mono_attrs_for: one ownership_mono attribute per mono of a fn that has
\* signature variables (build_mono_attr: the suffix as a string literal, then
\* the permission assigned to each variable).
push_mono_attrs_for(ana_, id, dest) ==
    IF id \in DOMAIN ana_.fns /\ ana_.fns[id].num_sig_vars # 0
    THEN LET monos == ana_.fns[id].monos
             assign(m) == Concat([j \in 1..Len(monos[m].assign) |->
                                      <<",", monos[m].assign[j]>>])
         IN dest \o [m \in 1..Len(monos) |->
                        make_attr("ownership_mono",
                                  <<"(", "\"" \o monos[m].suffix \o "\"">>
                                  \o assign(m) \o <<")">>)]
    ELSE dest

clean_attrs_KeepAll(attrs) == attrs

\* clean_attrs: the attributes other than ownership_mono,
\* ownership_constraints and ownership_static, in order.
clean_attrs(attrs) ==
    SelectSeq(attrs, LAMBDA a : a.name \notin
                  {"ownership_mono", "ownership_constraints", "ownership_static"})

\* fold_struct_field
fold_struct_field(ana_, sf) ==
    IF ~sf.marked THEN sf
    ELSE [sf EXCEPT !.attrs = clean_attrs(sf.attrs) \o static_attr_for(ana_, sf.id)]

RECURSIVE fold_item(_, _)
\* fold_item: the attributes of a marked static, const or fn are rebuilt; the
\* fields and the nested items of every item are folded (noop_fold_item).
fold_item(ana_, i) ==
    LET attrs ==
            IF ~i.marked THEN i.attrs
            ELSE CASE i.kind \in {"Static", "Const"} ->
                        clean_attrs(i.attrs) \o static_attr_for(ana_, i.id)
                   [] i.kind = "Fn" ->
                        push_mono_attrs_for(ana_, i.id,
                            clean_attrs(i.attrs) \o constraints_attr_for(ana_, i.id))
                   [] OTHER -> i.attrs
    IN [i EXCEPT !.attrs = attrs,
                 !.fields = [j \in 1..Len(i.fields) |-> fold_struct_field(ana_, i.fields[j])],
                 !.items = [j \in 1..Len(i.items) |-> fold_item(ana_, i.items[j])]]

\* Attributes an item carries before the run: one that is no ownership
\* attribute, and ownership attributes of an earlier analysis around it.
Inline == make_attr("inline", <<>>)
Stale(name) == make_attr(name, <<"(", "stale", ")">>)
AttrLists ==
    { <<>>,
      <<Stale("ownership_mono"), Inline, Stale("ownership_static"),
        Stale("ownership_constraints")>> }

\* The items that may stand at one place of the crate, with the ids id (the
\* item) and id + 10 (its field or nested fn).
AnItems(id) ==
    {Item(id, kind, marked, attrs, <<>>, <<>>) :
        kind \in {"Static", "Const", "Fn"}, marked \in BOOLEAN, attrs \in AttrLists}
    \cup {Item(id, "Struct", marked, Only(AttrLists \ {<<>>}),
               <<StructField(id + 10, fmarked, attrs)>>, <<>>) :
        marked \in BOOLEAN, fmarked \in BOOLEAN, attrs \in AttrLists}
    \cup {Item(id, "Mod", marked, Only(AttrLists \ {<<>>}), <<>>,
               <<Item(id + 10, "Fn", fmarked, attrs, <<>>, <<>>)>>) :
        marked \in BOOLEAN, fmarked \in BOOLEAN, attrs \in AttrLists}

\* Results of ownership::analyze: statics maps the ids of statics, consts and
\* fields to their labelled types, fns the ids of fns to their constraint
\* sets and monos.
FnResults ==
    [ poly |-> [cset |-> << <<[k |-> "SigVar", v |-> 0], [k |-> "Concrete", p |-> "WRITE"]>>,
                            <<[k |-> "Concrete", p |-> "READ"], [k |-> "SigVar", v |-> 1]>> >>,
                num_sig_vars |-> 2,
                monos |-> <<[suffix |-> "", assign |-> <<"READ", "READ">>],
                            [suffix |-> "mut", assign |-> <<"WRITE", "MOVE">>]>>],
      mono |-> [cset |-> <<>>, num_sig_vars |-> 0,
                monos |-> <<[suffix |-> "", assign |-> <<>>]>>] ]
AnalysisResults ==
    { [statics |-> [id \in {1, 2, 11, 12} |-> <<"None", "WRITE", "READ">>],
       fns |-> [id \in {1, 2, 11, 12} |->
                   IF id \in {1, 11} THEN FnResults.poly ELSE FnResults.mono]],
      [statics |-> [id \in {2, 11} |-> <<"MOVE">>],
       fns |-> [id \in {1, 12} |-> FnResults.poly]] }

InitAnnotate ==
    /\ an_src \in {<<a, b>> : a \in AnItems(1), b \in AnItems(2)}
    /\ an_ana \in AnalysisResults
    /\ an_krate = an_src
    /\ an_once = <<>>
    /\ an_runs = 0

\* do_annotate: the crate is folded by an AnnotateFolder that holds the
\* analysis result.
DoAnnotate ==
    /\ an_runs < MaxRuns
    /\ an_krate' = [n \in 1..Len(an_krate) |-> fold_item(an_ana, an_krate[n])]
    /\ an_once' = IF an_runs = 0 THEN an_krate' ELSE an_once
    /\ an_runs' = an_runs + 1
    /\ UNCHANGED <<an_src, an_ana, wsVars, spVars, trVars, tuVars, biVars, mlVars, scVars, plVars>>

\* ========================================================================
\* Specifications
\* ========================================================================

IdleWithStmts == w = new(0) /\ log = <<>> /\ expect = 0

IdleSplit ==
    /\ fns = <<>> /\ ana = <<>> /\ span_fref_idx = <<>> /\ handled_spans = {}
    /\ krate = <<>> /\ pc = "idle" /\ cur = 0

IdleTranslate ==
    /\ tr_use = "Unused" /\ tr_prog = <<>> /\ tr_x0 = 0 /\ tr_out = NoResult
    /\ tr_body = <<>> /\ tr_env = InitialEnv(0) /\ tr_pc = "idle"

IdleTranslateUnit ==
    /\ tu_decls = <<>> /\ tu_renamer = [names |-> {}, n |-> 0] /\ tu_items = <<>>
    /\ tu_out = <<>> /\ tu_pc = "idle"

IdleBuiltin ==
    /\ bi_name = <<>> /\ bi_args = <<>> /\ bi_used = FALSE /\ bi_out = NoBuiltinResult
    /\ bi_pc = "idle"

IdleTranslator == IdleWithStmts /\ IdleSplit /\ IdleTranslate /\ IdleTranslateUnit
IdleMirLoc ==
    /\ ml_path = "None" /\ ml_locs = Uninit /\ ml_index = 0 /\ ml_pc = "idle" /\ ml_log = <<>>

IdleScopes ==
    /\ sc_src = Empty /\ sc_renamer = Renamer(<<>>, 0)
    /\ sc_out = SRes(<<>>, sc_renamer, FALSE) /\ sc_pc = "idle"

IdlePlugin == pl_items = <<>> /\ pl_hooked = {} /\ pl_out = <<>>

IdleAnnotate ==
    /\ an_src = <<>> /\ an_ana = <<>> /\ an_krate = <<>> /\ an_once = <<>> /\ an_runs = 0

IdleLate == IdlePlugin /\ IdleAnnotate
IdleOther == IdleBuiltin /\ IdleMirLoc /\ IdleScopes /\ IdleLate

StartWithStmts == InitWithStmts /\ IdleSplit /\ IdleTranslate /\ IdleTranslateUnit /\ IdleOther
NextWithStmts == AndThen \/ AndThenNested \/ Map
SpecWithStmts == StartWithStmts /\ [][NextWithStmts]_vars

StartSplit == InitSplit /\ IdleWithStmts /\ IdleTranslate /\ IdleTranslateUnit /\ IdleOther
NextSplit == BuildSpanMap \/ FoldFn \/ FoldNodes
SpecSplit == StartSplit /\ [][NextSplit]_vars

StartTranslate == InitTranslate /\ IdleWithStmts /\ IdleSplit /\ IdleTranslateUnit /\ IdleOther
NextTranslate == ConvertExpr \/ ConvertStmt \/ RunBody
SpecTranslate == StartTranslate /\ [][NextTranslate]_vars

StartTranslateUnit == InitTranslateUnit /\ IdleWithStmts /\ IdleSplit /\ IdleTranslate /\ IdleOther
NextTranslateUnit == PopulateRenamer \/ ConvertDecl \/ PrintItems
SpecTranslateUnit == StartTranslateUnit /\ [][NextTranslateUnit]_vars

StartBuiltin == InitBuiltin /\ IdleTranslator /\ IdleMirLoc /\ IdleScopes /\ IdleLate
NextBuiltin == ConvertBuiltin
SpecBuiltin == StartBuiltin /\ [][NextBuiltin]_vars

StartMirLoc == InitMirLoc /\ IdleTranslator /\ IdleBuiltin /\ IdleScopes /\ IdleLate
NextMirLoc == SetFile \/ GetNone \/ GetCheck \/ GetRead
SpecMirLoc == StartMirLoc /\ [][NextMirLoc]_vars

StartScopes == InitScopes /\ IdleTranslator /\ IdleBuiltin /\ IdleMirLoc /\ IdleLate
NextScopes == ConvertFunction \/ ConvertStatement
SpecScopes == StartScopes /\ [][NextScopes]_vars

IdleEarly == IdleTranslator /\ IdleBuiltin /\ IdleMirLoc /\ IdleScopes

StartPlugin == InitPlugin /\ IdleEarly /\ IdleAnnotate
NextPlugin == FoldForeignItem \/ FoldExpr
SpecPlugin == StartPlugin /\ [][NextPlugin]_vars

StartAnnotate == InitAnnotate /\ IdleEarly /\ IdlePlugin
NextAnnotate == DoAnnotate
SpecAnnotate == StartAnnotate /\ [][NextAnnotate]_vars

\* ========================================================================
\* Claims about WithStmts (under SpecWithStmts)
\* ========================================================================

\* C1: w.and_then(f) lists w's statements and then those of f(w.val), none
\* dropped, duplicated or reordered, and carries the value of f(w.val); w.map(g)
\* leaves the statement list as it was; at every nesting depth.
C1_AndThenKeepsOrder == w.stmts = log /\ w.val = expect

\* A composition of callbacks of different kinds, some of them nested, that
\* fills the statement list.
C1_Witness ==
    /\ Len(w.stmts) = MaxStmts
    /\ w.stmts[1][1] # w.stmts[MaxStmts][1]
    /\ w.stmts = log

\* ========================================================================
\* Claims about do_split_variants (under SpecSplit)
\* ========================================================================

\* The expressions of the crate after splitting, each with the item it lies in.
Sites == {<<n, k>> \in (1..Len(krate)) \X (1..(MaxRefs + 1)) : k <= Len(krate[n].body)}
SiteItem(s) == krate[s[1]]
SiteExpr(s) == krate[s[1]].body[s[2]]
\* The sites that are func refs, and the fn each one calls.
CallSites == {s \in Sites : SiteExpr(s).span \in DOMAIN span_fref_idx}
RefIdx(s) == SiteExpr(s).span[2]
CalleeOf(s) == ana[SiteItem(s).orig].func_refs[RefIdx(s)].def_id
InClone(s) == SiteItem(s).mono >= 0

\* C2: after both passes every call site that targets a marked fn has had a
\* mono suffix applied exactly once, in a clone or in a non-split fn; no call
\* site is ever rewritten by both passes.
C2_CallSitesRewrittenOnce ==
    /\ \A s \in Sites : SiteExpr(s).applied <= 1
    /\ pc = "done" =>
        \A s \in CallSites : Marked(CalleeOf(s)) =>
            /\ SiteExpr(s).applied = 1
            /\ \E m \in 1..Len(ana[CalleeOf(s)].monos) :
                SiteExpr(s).ident =
                    mono_name(FnNames[CalleeOf(s)], ana[CalleeOf(s)].monos[m].suffix)

\* Both passes have rewritten a call site in the same run.
C2_Witness ==
    /\ pc = "done"
    /\ \E s \in CallSites : InClone(s) /\ Marked(CalleeOf(s)) /\ SiteExpr(s).applied = 1
    /\ \E s \in CallSites : ~InClone(s) /\ Marked(CalleeOf(s)) /\ SiteExpr(s).applied = 1

\* The mono of the callee that the caller's first mono binds at a call site.
CallerFirstMonoChoice(s) ==
    ana[SiteItem(s).orig].monos[1].callee_mono_idxs[RefIdx(s)]

\* C3 as stated: a call from a non-split fn into a split fn is rewritten to
\* the callee's mono of index 0.
C3_FallbackIsCalleeMonoZero ==
    pc = "done" =>
        \A s \in CallSites : (~InClone(s) /\ Marked(CalleeOf(s))) =>
            SiteExpr(s).ident =
                mono_name(FnNames[CalleeOf(s)], ana[CalleeOf(s)].monos[1].suffix)

\* C3 as amended: a call from a non-split fn into a split fn is rewritten to
\* the callee mono that the caller's first mono record (monos[0]) binds at that
\* call site, monos[0].callee_mono_idxs[fref_idx].
C3_FallbackIsCallerFirstMonoChoice ==
    pc = "done" =>
        \A s \in CallSites : (~InClone(s) /\ Marked(CalleeOf(s))) =>
            SiteExpr(s).ident =
                mono_name(FnNames[CalleeOf(s)],
                          ana[CalleeOf(s)].monos[CallerFirstMonoChoice(s) + 1].suffix)

\* A non-split caller whose first mono binds a callee mono other than index 0.
C3_Witness ==
    /\ pc = "done"
    /\ \E s \in CallSites :
        /\ ~InClone(s) /\ Marked(CalleeOf(s))
        /\ CallerFirstMonoChoice(s) # 0
        /\ SiteExpr(s).applied = 1

\* The items of the crate that came from fn i, in crate order.
ItemsOf(i) == SelectSeq(krate, LAMBDA it : it.orig = i)

\* C4: a marked fn with analysis results is replaced by one clone per mono
\* record, in mono order; a clone is named <name>_<suffix>, the first mono's
\* clone keeps the name, and the names of one fn's clones are pairwise distinct.
C4_OneClonePerMono ==
    pc \in {"fold_nodes", "done"} =>
        \A i \in FnIds : (fns[i].marked /\ ana[i].has) =>
            LET clones == ItemsOf(i)
                monos == ana[i].monos
            IN /\ Len(clones) = Len(monos)
               /\ \A m \in 1..Len(clones) :
                    /\ clones[m].mono = m - 1
                    /\ clones[m].ident =
                        IF m = 1 THEN FnNames[i]
                        ELSE FnNames[i] \o "_" \o monos[m].suffix
               /\ \A m1, m2 \in 1..Len(clones) :
                    m1 # m2 => clones[m1].ident # clones[m2].ident

\* A marked fn that was split into several clones.
C4_Witness ==
    /\ pc = "done"
    /\ \E i \in FnIds :
        /\ fns[i].marked /\ ana[i].has
        /\ Len(ana[i].monos) >= 2
        /\ Len(ItemsOf(i)) >= 2

\* C5: a call whose callee is an unmarked fn is left as it was, inside a clone
\* of a split fn and inside a non-split fn.
C5_CallsToUnmarkedUntouched ==
    \A s \in CallSites : ~Marked(CalleeOf(s)) =>
        /\ SiteExpr(s).ident = FnNames[CalleeOf(s)]
        /\ SiteExpr(s).applied = 0

\* Calls to an unmarked fn from a clone and from a non-split fn, beside a call
\* that was rewritten.
C5_Witness ==
    /\ pc = "done"
    /\ \E s \in CallSites : InClone(s) /\ ~Marked(CalleeOf(s))
    /\ \E s \in CallSites : ~InClone(s) /\ ~Marked(CalleeOf(s))
    /\ \E s \in CallSites : SiteExpr(s).applied = 1

\* The index (from 0) of the callee mono bound at a call site: the choice of
\* the clone's own mono, or of the caller's first mono in a non-split fn.
ChosenMono(s) ==
    ana[SiteItem(s).orig].monos[(IF InClone(s) THEN SiteItem(s).mono ELSE 0) + 1]
        .callee_mono_idxs[RefIdx(s)]

\* C28: after splitting, every call expression rewritten by either pass names
\* a fn item of the crate: the chosen mono index lies within the callee's mono
\* list, and the rewritten name is the identifier of the callee's clone made
\* for that same mono.
C28_RewrittenCallsNameExistingClones ==
    pc = "done" =>
        \A s \in CallSites : SiteExpr(s).applied > 0 =>
            /\ ChosenMono(s) \in 0..(Len(ana[CalleeOf(s)].monos) - 1)
            /\ \E n \in 1..Len(krate) :
                /\ krate[n].orig = CalleeOf(s)
                /\ krate[n].mono = ChosenMono(s)
                /\ krate[n].ident = SiteExpr(s).ident

\* Both passes have rewritten a call to a suffixed clone: one from inside a
\* clone, one from a non-split fn.
C28_Witness ==
    /\ pc = "done"
    /\ \E s \in CallSites :
        InClone(s) /\ SiteExpr(s).applied > 0 /\ ChosenMono(s) > 0
    /\ \E s \in CallSites :
        ~InClone(s) /\ SiteExpr(s).applied > 0 /\ ChosenMono(s) > 0

\* ------------------------------------------------------------------------
\* Claims about the expression translator (SpecTranslate)
\* ------------------------------------------------------------------------

\* The nodes of the code convert_expr emitted for the expression: its
\* statements, and its value where the enclosing expression uses it.
EmittedNodes ==
    NodesOfAll(IF tr_use = "Unused" THEN tr_out.stmts ELSE Append(tr_out.stmts, tr_out.val))

\* The nodes of the statements convert_stmt emitted.
BodyNodes == NodesOfAll(tr_body)

VolatileReads(nodes) ==
    Len(SelectSeq(nodes,
                  LAMBDA nd : nd.k = "Call" /\ nd.f = path_expr("std::ptr::read_volatile")))

VolatileWrites(nodes) ==
    Len(SelectSeq(nodes,
                  LAMBDA nd : nd.k = "Call" /\ nd.f = path_expr("std::ptr::write_volatile")))

\* The arithmetic operations among the nodes: binary operators and wrapping
\* methods.
ArithmeticOps(nodes) ==
    Len(SelectSeq(nodes,
                  LAMBDA nd : \/ nd.k = "Binary"
                              \/ nd.k = "MethodCall" /\ nd.name \notin {"as_mut_ptr", "offset"}))

NativeAssignOps(nodes) == Len(SelectSeq(nodes, LAMBDA nd : nd.k = "AssignOp"))

\* The calls of the C functions f and g among the nodes.
UserCalls(nodes) ==
    Len(SelectSeq(nodes,
                  LAMBDA nd : nd.k = "Call" /\ nd.f \in {path_expr("f"), path_expr("g")}))

VolatileLvalues == {l \in Lvalues : l.qty.is_volatile}

\* The statement is a compound assignment to a volatile lvalue, its value
\* unused (`v += 1;`) or used (`y = (v += 1);`).
VolatileCompoundAssignStmt ==
    /\ tr_pc = "body"
    /\ \E op \in AssignOps, l \in VolatileLvalues, r \in PlainOperands :
          \/ tr_prog = <<Assignment(op, l, r)>>
          \/ tr_prog = <<Assignment("Assign", Var("y"), Assignment(op, l, r))>>

\* C6: the code emitted for a compound assignment to a volatile lvalue, its
\* value unused or used, holds exactly one volatile read, one arithmetic
\* operation and one volatile write, and no native compound operator.
C6_VolatileCompoundAssignReadsOnce ==
    VolatileCompoundAssignStmt =>
        /\ VolatileReads(BodyNodes) = 1
        /\ ArithmeticOps(BodyNodes) = 1
        /\ VolatileWrites(BodyNodes) = 1
        /\ NativeAssignOps(BodyNodes) = 0

\* C7: a reference to a volatile variable translated for its value or with
\* its value unused puts a volatile read into the code emitted for the
\* enclosing statement, an expression statement included; translated as an
\* lvalue it emits none.
C7_VolatileRefEmitsRead ==
    /\ tr_pc = "body" /\ tr_prog \in {<<Var("v")>>, <<Rvalue(Var("v"))>>}
          => VolatileReads(BodyNodes) >= 1
    /\ tr_pc = "body" /\ tr_prog \in {<<Assignment("Assign", l, Rvalue(Var("v")))>> : l \in Lvalues}
          => VolatileReads(BodyNodes) >= 1
    /\ tr_pc = "expr" /\ tr_use = "RValue" /\ tr_prog \in {<<Var("v")>>, <<Rvalue(Var("v"))>>}
          => VolatileReads(EmittedNodes) >= 1
    /\ tr_pc = "expr" /\ tr_use = "LValue" /\ tr_prog = <<Var("v")>>
          => VolatileReads(NodesOfAll(Append(tr_out.stmts, tr_out.val))) = 0

WrappingName(op) ==
    CASE op = "Add" -> "wrapping_add" [] op = "Subtract" -> "wrapping_sub"
      [] op = "Multiply" -> "wrapping_mul" [] op = "Divide" -> "wrapping_div"
      [] op = "Modulus" -> "wrapping_rem"

NativeName(op) ==
    CASE op = "Add" -> "Add" [] op = "Subtract" -> "Sub" [] op = "Multiply" -> "Mul"
      [] op = "Divide" -> "Div" [] op = "Modulus" -> "Rem"

\* a op b in C's unsigned arithmetic of UIntBits bits (b # 0 for / and %)
UnsignedResult(op, a, b) ==
    (CASE op = "Add" -> a + b [] op = "Subtract" -> a - b [] op = "Multiply" -> a * b
       [] op = "Divide" -> a \div b [] op = "Modulus" -> a % b) % (2 ^ UIntBits)

\* C8: +, -, *, / and % on operands whose type is, following typedefs, an
\* unsigned integer type become the wrapping method, whose result is
\* (a op b) mod 2^width for all a and b and never a trap; on signed operands
\* they become the ordinary operator.
C8_UnsignedArithmeticWraps ==
    \A op \in ArithOps, ab \in {<<"x", "y">>, <<"u", "u2">>, <<"t", "t2">>} :
        tr_pc = "expr" /\ tr_prog = <<Arith(op, ab[1], ab[2])>> =>
            IF is_unsigned_integral_type(resolve_type(Decls[ab[1]].ctype))
            THEN /\ tr_out.val.k = "MethodCall"
                 /\ tr_out.val.name = WrappingName(op)
                 /\ \A a, b \in 0..TypeMax(FALSE), checks \in BOOLEAN :
                       (op \in {"Divide", "Modulus"} => b # 0) =>
                           Eval(tr_out.val, (ab[1] :> a) @@ (ab[2] :> b), FALSE, checks)
                               = Value(UnsignedResult(op, a, b))
            ELSE tr_out.val = binary_expr(NativeName(op), path_expr(ab[1]), path_expr(ab[2]))

\* C9: a post-increment or post-decrement whose value is used first saves
\* the operand's value in a fresh temporary, then writes the operand, and
\* has the temporary as its value; `y = x++; z = x++;` run from x = x0 ends
\* with y = x0, z = x0 + 1 and x = x0 + 2 (y = 5, z = 6, x = 7 from x = 5).
C9_PostIncrementSavesOldValue ==
    /\ ( /\ tr_pc = "expr" /\ tr_use # "Unused"
         /\ tr_prog[1].k = "Unary" /\ tr_prog[1].op \in {"PostIncrement", "PostDecrement"} )
       => LET s == tr_out.stmts
              n == Len(s)
              up == tr_prog[1].op = "PostIncrement"
          IN /\ n >= 2
             /\ s[n - 1].k = "Local" /\ ~s[n - 1].by_ref
             /\ s[n - 1].name \notin DOMAIN Decls
             /\ \A j \in 1..(n - 2) : s[j].k = "Local" /\ s[j].name # s[n - 1].name
             /\ \A j \in 1..(n - 1) :
                   \A i \in 1..Len(Nodes(s[j])) : Nodes(s[j])[i].k \notin {"Assign", "AssignOp"}
             /\ s[n].k = "Expr" /\ s[n].e.k = "Assign"
             /\ s[n].e.r = IncrementedVal(tr_prog[1].arg.qty, up, s[n - 1].init)
             /\ tr_out.val = path_expr(s[n - 1].name)
    /\ tr_pc = "ran" /\ tr_prog = TwoPostIncrements
       => /\ ~tr_env.trap
          /\ tr_env.env.y = tr_x0
          /\ tr_env.env.z = tr_x0 + 1
          /\ tr_env.env.x = tr_x0 + 2

\* `y = x++; z = x++;` was translated and run from x = 5, and left x = 7.
C9_Witness ==
    /\ tr_pc = "ran" /\ tr_prog = TwoPostIncrements /\ tr_x0 = 5
    /\ tr_env.env.x = 7 /\ tr_env.env.y = 5

\* a[f()], p[f()], *g(): the lvalues whose address expression makes a call
CallLvalues == {l \in Lvalues : UserCalls(Nodes(convert_expr("LValue", l, 0).val)) = 1}

\* The expression goes through name_reference with an lvalue whose address
\* expression makes a call, and makes no other call.
NameReferenceOfCall ==
    /\ tr_pc = "expr"
    /\ \E l \in CallLvalues :
          \/ \E op \in IncDecOps : tr_prog = <<IncDec(op, l)>>
          \/ \E op \in AssignOps \cup {"Assign"}, r \in {Literal(1), Rvalue(Var("y"))} :
                tr_prog = <<Assignment(op, l, r)>>

\* name_reference was asked for a read as well.
ReadRequested == tr_prog[1].k = "Unary" \/ tr_use = "RValue"

\* C10: the address expression of an lvalue that name_reference names occurs
\* exactly once in the emitted code, hoisted into a fresh `let ref mut` when
\* a read is asked for and the lvalue is not free of side effects.
C10_AddressExpressionOccursOnce ==
    NameReferenceOfCall =>
        /\ UserCalls(EmittedNodes) = 1
        /\ ReadRequested =>
              \E j \in 1..Len(tr_out.stmts) :
                  tr_out.stmts[j].k = "Local" /\ tr_out.stmts[j].by_ref

\* The translation hit unimplemented! or panic! and made no code.
Aborted(res) ==
    \E j \in 1..Len(NodesOfAll(Append(res.stmts, res.val))) :
        LET nd == NodesOfAll(Append(res.stmts, res.val))[j]
        IN nd.k = "Mac" /\ nd.name # "panic"

\* The variables when p points at element i and p2 at element j of an array
\* of elements of size bytes.
PointerEnv(i, j, size) ==
    [p |-> MaxElems + i * size, p2 |-> MaxElems + j * size, size_of |-> size]

\* C11 (as the code has it): a pointer difference always translates, to
\* code that yields the signed element distance lhs - rhs when offset_to has
\* a result, and that panics when it runs ("bad offset_to") when it has none.
C11_PointerDifferencePanicsWhenRun ==
    tr_pc = "expr" /\ tr_prog = PointerDifference =>
        /\ ~Aborted(tr_out)
        /\ \A size \in 0..MaxElems, i, j \in 0..MaxElems, checks \in BOOLEAN :
              LET r == Eval(tr_out.val, PointerEnv(i, j, size), TRUE, checks)
              IN IF size = 0 THEN r.trap ELSE r = Value(i - j)

\* C11 (as claimed): a pointer difference yields the signed element distance
\* lhs - rhs when it is defined, and where the distance computation can have
\* no result the translation fails and makes no code.
C11_UndefinedDistanceFailsTranslation ==
    tr_pc = "expr" /\ tr_prog = PointerDifference =>
        /\ \A size \in 1..MaxElems, i, j \in 0..MaxElems, checks \in BOOLEAN :
              Eval(tr_out.val, PointerEnv(i, j, size), TRUE, checks) = Value(i - j)
        /\ (\E size \in 0..MaxElems : OffsetTo(MaxElems, MaxElems, size).k = "None")
              => Aborted(tr_out)

\* p - p2 was translated to a cast of the expected distance.
C11_Witness ==
    /\ tr_pc = "expr" /\ tr_prog = PointerDifference
    /\ tr_out.val.k = "Cast" /\ tr_out.val.e.name = "expect"

\* The variables the nodes assign to.
AssignTargets(nodes) ==
    {nodes[j].l.name : j \in {i \in 1..Len(nodes) : nodes[i].k = "Assign"}}

\* The variables the translation of a C expression assigns to.
WrittenBy(e) ==
    LET r == convert_expr("RValue", e, 0)
    IN AssignTargets(NodesOfAll(Append(r.stmts, r.val)))

\* C12: c ? a : b translated for its value is an if/else expression: c's
\* statements come before it, its condition is c made a boolean, and each
\* branch holds its own arm's statements and value and nothing of the other
\* arm, so one arm runs; `return x > 0 ? x : -x;` returns 3 for 3 and for -3.
C12_ConditionalRunsOneArm ==
    /\ \A e \in Conditionals :
          tr_pc = "expr" /\ tr_use # "Unused" /\ tr_prog = <<e>> =>
              LET c == convert_expr("RValue", e.cond, 0)
                  then == tr_out.val.then
              IN /\ tr_out.stmts = c.stmts
                 /\ tr_out.val.k = "If"
                 /\ tr_out.val.cond \in {binary_expr("Ne", lit_expr(0), c.val),
                                         unary_expr("Not", method_call_expr(c.val, "is_null", <<>>))}
                 /\ AssignTargets(NodesOfAll(then)) = WrittenBy(e.lhs)
                 /\ UserCalls(NodesOfAll(then)) = 0
                 /\ then[Len(then)].k = "Expr"
                 /\ AssignTargets(Nodes(tr_out.val.els)) = WrittenBy(e.rhs)
                 /\ UserCalls(Nodes(tr_out.val.els)) = (IF e.rhs.k = "Call" THEN 1 ELSE 0)
    /\ \A e \in Conditionals :
          tr_pc = "ran" /\ tr_prog = <<Return(e)>> =>
              LET first == (tr_x0 > 0)
                  x1 == IF e.cond.lhs.k = "Unary" THEN tr_x0 + 1 ELSE tr_x0
              IN /\ ~tr_env.trap
                 /\ tr_env.env.x = x1
                 /\ tr_env.env.y = (IF first /\ e.lhs.k = "Unary" THEN 1 ELSE 0)
                 /\ tr_env.env.z = (IF ~first /\ e.rhs.op = "PreDecrement" THEN -1 ELSE 0)
                 /\ tr_env.env.ret =
                       (CASE e.lhs.k # "Unary" -> (IF first THEN x1 ELSE -x1)
                          [] e.lhs.op = "PreIncrement" -> (IF first THEN 1 ELSE -1))
    /\ tr_pc = "ran" /\ tr_prog = ReturnAbs => tr_env.env.ret = 3

\* `return x > 0 ? x : -x;` was translated and run on x = -3 and returned 3.
C12_Witness ==
    /\ tr_pc = "ran" /\ tr_prog = ReturnAbs /\ tr_x0 = -3
    /\ tr_env.env.ret = 3

RECURSIVE Mutated(_)
\* The variables a C expression increments or decrements, in evaluation order.
Mutated(c) ==
    CASE c.k = "Unary" /\ c.op \in IncDecOps -> <<c.arg.name>>
      [] c.k = "Binary" -> Mutated(c.lhs) \o Mutated(c.rhs)
      [] c.k = "ImplicitCast" -> Mutated(c.e)
      [] OTHER -> <<>>

\* The variables a list of emitted statements assigns to, in order.
AssignedInOrder(stmts) ==
    LET nodes == NodesOfAll(stmts)
        assigns == SelectSeq(nodes, LAMBDA nd : nd.k = "Assign")
    IN [j \in 1..Len(assigns) |-> assigns[j].l.name]

\* C15: a call's statements are those of the callee, then those of each
\* argument from left to right, callee and arguments translated for their
\* values; an unused call is appended as the last statement and the value is
\* the panic sentinel, a used call is the value and no statement; the call
\* occurs once.
C15_CallHoistsCalleeThenArgs ==
    \A e \in Calls :
        tr_pc = "expr" /\ tr_prog = <<e>> =>
            LET func == convert_expr("RValue", e.func, 0)
                n == Len(tr_out.stmts)
                hoisted == IF tr_use = "Unused" THEN SubSeq(tr_out.stmts, 1, n - 1)
                           ELSE tr_out.stmts
                call == IF tr_use = "Unused" THEN tr_out.stmts[n].e ELSE tr_out.val
            IN /\ tr_use = "Unused" => tr_out.stmts[n].k = "Semi" /\ tr_out.val = panic_expr
               /\ call.k = "Call" /\ call.f = func.val /\ Len(call.args) = Len(e.args)
               /\ \A j \in 1..Len(Nodes(call)) : Nodes(call)[j] # panic_expr
               /\ AssignedInOrder(hoisted) =
                     Mutated(e.func) \o Concat([j \in 1..Len(e.args) |-> Mutated(e.args[j])])
               /\ hoisted # <<>> => SubSeq(hoisted, 1, Len(func.stmts)) = func.stmts
               /\ VolatileReads(Nodes(call)) =
                     Cardinality({j \in 1..Len(e.args) : e.args[j] = Rvalue(Var("v"))})
               /\ UserCalls(EmittedNodes) = 1
               /\ UserCalls(NodesOfAll(hoisted)) = 0

C15_Witness ==
    /\ tr_pc = "expr" /\ tr_use = "Unused"
    /\ \E e \in Calls :
          /\ tr_prog = <<e>> /\ Len(e.args) = 3 /\ e.func.k = "Binary"
          /\ Len(tr_out.stmts) > 4

\* The assignments a list of emitted statements makes, in order.
Assigns(stmts) == SelectSeq(NodesOfAll(stmts), LAMBDA nd : nd.k = "Assign")

\* C16: ++ and -- on an operand of unsigned integer type assign the operand
\* wrapping_add(1) or wrapping_sub(1), which is (a + 1) or (a - 1) mod 2^width
\* for every a and never a trap; on a pointer they assign offset(1) or
\* offset(-1).
C16_UnsignedIncDecWraps ==
    \A op \in IncDecOps, nm \in {"u", "t", "p"} :
        tr_pc = "expr" /\ tr_prog = <<IncDec(op, Var(nm))>> =>
            LET up == op \in {"PreIncrement", "PostIncrement"}
                val == Assigns(tr_out.stmts)[1].r
            IN /\ Len(Assigns(tr_out.stmts)) = 1
               /\ Assigns(tr_out.stmts)[1].l = path_expr(nm)
               /\ IF is_pointer(resolve_type(Decls[nm].ctype))
                  THEN val = method_call_expr(path_expr(nm), "offset",
                                              <<IF up THEN lit_expr(1)
                                                ELSE unary_expr("Neg", lit_expr(1))>>)
                  ELSE /\ val.k = "MethodCall"
                       /\ val.name = (IF up THEN "wrapping_add" ELSE "wrapping_sub")
                       /\ \A a \in 0..TypeMax(FALSE), checks \in BOOLEAN :
                             Eval(val, nm :> a, FALSE, checks)
                                 = Value((IF up THEN a + 1 ELSE a - 1) % (2 ^ UIntBits))

\* C17: p + x and x + p, p a pointer and x an integer, both become the
\* offset method called on the pointer with the integer cast to isize.
C17_PointerSumOffsetsThePointer ==
    \A prog \in PointerSums :
        tr_pc = "expr" /\ tr_use = "RValue" /\ tr_prog = prog /\ prog[1].op = "Add" =>
            tr_out.val = method_call_expr(path_expr("p"), "offset",
                                          <<cast_expr(path_expr("x"), path_ty("isize"))>>)

\* C18: !e is the test match_bool(false, type of e, e) cast to c_int:
\* is_null() for a pointer, a comparison with the floating zero literal for
\* a floating operand and with the integer zero for an integer operand.
C18_NotTestsTheOperandType ==
    \A e \in Negations :
        tr_pc = "expr" /\ tr_use = "RValue" /\ tr_prog = <<e>> =>
            LET arg == convert_expr("RValue", e.arg, 0)
            IN /\ tr_out.stmts = arg.stmts
               /\ tr_out.val = cast_expr(match_bool(FALSE, get_type(e.arg), arg.val),
                                         path_ty("libc::c_int"))

\* A value made a boolean by match_bool(true, ..).
IsTruthTest(b) ==
    \/ b.k = "Binary" /\ b.op = "Ne" /\ b.l = lit_expr(0)
    \/ b.k = "Unary" /\ b.op = "Not" /\ b.e.k = "MethodCall" /\ b.e.name = "is_null"

C20_SubscriptOfArrayIndexes ==
    \A e \in Subscripts :
        tr_pc = "expr" /\ tr_use = "RValue" /\ tr_prog = <<e>> =>
            LET IsDecay(c) == c.k = "ImplicitCast" /\ c.kind = "ArrayToPointerDecay"
            IN IF IsDecay(e.lhs) \/ IsDecay(e.rhs)
               THEN tr_out.val = index_expr(path_expr("a"), path_expr("x"))
               ELSE tr_out.val = unary_expr("Deref", pointer_offset(path_expr("p"), path_expr("x")))

\* The emitted statement writes the variable nm.
WritesTo(stmt, nm) ==
    \E nodes \in {Nodes(stmt)} :
        \E j \in 1..Len(nodes) :
            nodes[j].k \in {"Assign", "AssignOp"} /\ nodes[j].l = path_expr(nm)

\* C21: in a non-assignment binary operation, an assignment and an array
\* subscript, the statements hoisted from the first operand precede the
\* statements hoisted from the second operand.
C21_LeftStmtsBeforeRightStmts ==
    \A t \in TwoSided :
        tr_pc = "expr" /\ tr_prog = <<t.e>> =>
            /\ \E i \in 1..Len(tr_out.stmts) : WritesTo(tr_out.stmts[i], t.first)
            /\ \E j \in 1..Len(tr_out.stmts) : WritesTo(tr_out.stmts[j], t.second)
            /\ \A i, j \in 1..Len(tr_out.stmts) :
                  WritesTo(tr_out.stmts[i], t.first) /\ WritesTo(tr_out.stmts[j], t.second)
                      => i < j

\* C22: an initializer list of a struct of n fields with k values has n field
\* initializers in declaration order: the first k are the translated values,
\* the other n - k the implicit default of the field's type.
C22_StructLiteralPadsOmittedFields ==
    \A e \in StructInits :
        tr_pc = "expr" /\ tr_use = "RValue" /\ tr_prog = <<e>> =>
            LET field_decls == Records["s3"].fields
                provided == convert_args(e.ids, 0)
                k == Len(e.ids)
            IN /\ tr_out.val.k = "Struct"
               /\ tr_out.stmts = provided.stmts
               /\ Len(tr_out.val.fields) = Len(field_decls)
               /\ \A i \in 1..Len(field_decls) :
                     /\ tr_out.val.fields[i].name = field_decls[i].name
                     /\ tr_out.val.fields[i].e =
                           IF i <= k THEN provided.val[i]
                           ELSE implicit_default_expr(field_decls[i].typ.ctype)

\* ========================================================================
\* Claims about translate (under SpecTranslateUnit)
\* ========================================================================

\* The C name the item was made for.
ItemName(item) == IF item.k = "ForeignItems" THEN item.items[1].name ELSE item.name

\* The kind of item a declaration translates to.
ItemKind(decl) ==
    CASE decl.k = "Struct" -> "StructItem"
      [] decl.k = "Typedef" -> "TypeItem"
      [] decl.k = "Function" /\ decl.has_body -> "FnItem"
      [] decl.k = "Function" /\ ~decl.has_body -> "ForeignItems"

\* C13: a declaration with an unsupported construct aborts that declaration
\* alone: every run of translate ends with output, and the output holds the
\* item of every declaration that is supported, whatever comes before it.
C13_FailureAbortsOneDeclaration ==
    /\ tu_pc # "panicked"
    /\ tu_pc = "done" =>
          \A j \in 1..Len(tu_decls) :
              Supported(tu_decls[j]) =>
                  \E i \in (Len(Preamble) + 1)..Len(tu_out) :
                      ItemName(tu_out[i]) = index(tu_decls[j]).name

\* C14: when translate completes, the output is the preamble followed by
\* exactly one item per declaration of c_decls_top, in the order of
\* c_decls_top.
C14_OneItemPerDeclInOrder ==
    tu_pc = "done" =>
        /\ Len(tu_out) = Len(Preamble) + Len(tu_decls)
        /\ SubSeq(tu_out, 1, Len(Preamble)) = Preamble
        /\ \A j \in 1..Len(tu_decls) :
              LET item == tu_out[Len(Preamble) + j]
              IN /\ item.k = ItemKind(index(tu_decls[j]))
                 /\ ItemName(item) = index(tu_decls[j]).name

C14_Witness ==
    /\ tu_pc = "done"
    /\ Len(tu_decls) = MaxDecls
    /\ \E i, j \in 1..Len(tu_decls) : tu_decls[i] # tu_decls[j]

\* ========================================================================
\* Claims about the lowering of builtins (under SpecBuiltin)
\* ========================================================================

\* The method each overflow-checked operation is to become.
OverflowMethods ==
    { [op |-> <<"a", "d", "d">>, method |-> "overflowing_add"],
      [op |-> <<"s", "u", "b">>, method |-> "overflowing_sub"],
      [op |-> <<"m", "u", "l">>, method |-> "overflowing_mul"] }

\* C23: an overflow-checked arithmetic builtin emits the statements of its
\* three arguments in argument order, then the binding of (result, flag) to
\* overflowing_<op> of the first two arguments, then the store of the result
\* through the third; its value is the flag; every argument occurs once, and
\* what is emitted after the arguments has no operator that can trap.
C23_OverflowArithBindsThenStores ==
    \A om \in OverflowMethods :
        bi_pc = "done" /\ bi_name \in OverflowNames(om.op) =>
            LET a0 == convert_expr("RValue", bi_args[1], 0)
                a1 == convert_expr("RValue", bi_args[2], a0.n)
                a2 == convert_expr("RValue", bi_args[3], a1.n)
                hoisted == a0.stmts \o a1.stmts \o a2.stmts
                h == Len(hoisted)
                binding == bi_out.stmts[h + 1]
                store == bi_out.stmts[h + 2]
                own == NodesOfAll(<<binding, store, bi_out.val>>)
            IN /\ bi_out.ok
               /\ Len(bi_out.stmts) = h + 2
               /\ SubSeq(bi_out.stmts, 1, h) = hoisted
               /\ binding.k = "LocalTuple" /\ Len(binding.names) = 2
               /\ binding.names[1] # binding.names[2]
               /\ binding.init = method_call_expr(a0.val, om.method, <<a1.val>>)
               /\ store = expr_stmt(assign_expr(unary_expr("Deref", a2.val),
                                                path_expr(binding.names[1])))
               /\ bi_out.val = path_expr(binding.names[2])
               /\ \A j \in 1..Len(own) : own[j].k \notin {"Binary", "AssignOp", "Cast"}
               /\ UserCalls(NodesOfAll(Append(bi_out.stmts, bi_out.val)))
                     = Cardinality({j \in 1..3 : bi_args[j] = CallF})
               /\ Len(Assigns(hoisted)) = Cardinality({j \in 1..3 : bi_args[j].k = "Binary"})

C23_Witness ==
    /\ bi_pc = "done" /\ bi_out.ok
    /\ bi_name = BuiltinPrefix \o <<"u", "m", "u", "l", "l", "l", "_", "o", "v", "e", "r", "f", "l", "o", "w">>
    /\ bi_args = <<Assignment("Assign", Var("y"), Rvalue(Var("z"))), CallF, Rvalue(Var("p"))>>
    /\ Len(bi_out.stmts) = 3

\* The intrinsic each atomic operation is to become.
AtomicIntrinsics ==
    { [op |-> <<"a", "d", "d">>, func |-> "atomic_xadd"], [op |-> <<"s", "u", "b">>, func |-> "atomic_xsub"],
      [op |-> <<"o", "r">>, func |-> "atomic_or"], [op |-> <<"a", "n", "d">>, func |-> "atomic_and"],
      [op |-> <<"x", "o", "r">>, func |-> "atomic_xor"], [op |-> <<"n", "a", "n", "d">>, func |-> "atomic_nand"] }

\* C24: __sync_fetch_and_<op>_<n> and __sync_<op>_and_fetch_<n> select the
\* atomic intrinsic of <op>, with fetch_first true for the first form and
\* false for the second.
C24_SyncNameSelectsIntrinsic ==
    \A ai \in AtomicIntrinsics, wd \in AtomicWidths :
        bi_pc = "done" /\ bi_name \in {FetchAndOpName(ai.op, wd), OpAndFetchName(ai.op, wd)} =>
            /\ bi_out.ok
            /\ bi_out.val.k = "AtomicOp"
            /\ bi_out.val.func = ai.func
            /\ bi_out.val.fetch_first = (bi_name = FetchAndOpName(ai.op, wd))

C24_Witness ==
    /\ bi_pc = "done"
    /\ bi_name = OpAndFetchName(<<"n", "a", "n", "d">>, <<"1", "6">>)
    /\ bi_out.ok /\ bi_out.val.func = "atomic_nand" /\ ~bi_out.val.fetch_first

\* C25: a memory or string builtin called with the arguments of its C
\* prototype translates without error to a call of the libc function of the
\* same name without the __builtin_ prefix, all the arguments passed in
\* order and the length argument cast to libc::size_t.
C25_LibcBuiltinCallsLibcFn ==
    \A fn \in LibcFns :
        bi_pc = "done" /\ bi_name = BuiltinPrefix \o fn.base /\ Len(bi_args) = fn.arity =>
            /\ bi_out.ok
            /\ LET a == convert_exprs(bi_args, 0)
                   call == IF bi_used THEN bi_out.val ELSE bi_out.stmts[Len(bi_out.stmts)].e
               IN /\ call.k = "Call"
                  /\ call.f = path_segments_expr(<<<<"l", "i", "b", "c">>, fn.base>>)
                  /\ call.args = [j \in 1..fn.arity |->
                                     IF j = fn.len THEN cast_expr(a.val[j], path_ty("libc::size_t"))
                                     ELSE a.val[j]]

\* ========================================================================
\* Claims about the runtime's location table (under SpecMirLoc)
\* ========================================================================

\* The calls of get in the log
GetsInLog == {j \in 1..Len(ml_log) : ml_log[j].call = "get"}

\* C26: while set_file has never been called every get returns None and the
\* table is neither loaded nor touched; the table is loaded at most once;
\* once loaded it never changes, whatever set_file is called with afterwards,
\* and every get that returns a location returns one of the loaded table.
C26_TableLoadedAtMostOnce ==
    /\ [](/\ ml_locs.loads <= 1
          /\ ml_path = "None" =>
                /\ ml_locs = Uninit
                /\ \A j \in GetsInLog : ml_log[j].ret = "None"
          /\ \A j \in GetsInLog :
                ml_log[j].ret \notin {"None", "panic"} =>
                    /\ ml_locs.state = "loaded"
                    /\ ml_log[j].index < Len(ml_locs.locs)
                    /\ ml_log[j].ret = ToString(ml_locs.locs[ml_log[j].index + 1]))
    /\ [][ml_locs.state # "uninit" => ml_locs' = ml_locs]_vars

\* A get returns a location of file a after set_file("b") was called on the
\* loaded table.
C26_Witness ==
    /\ ml_locs.state = "loaded" /\ ml_locs.locs = SpanFiles["a"]
    /\ \E i, j, k \in 1..Len(ml_log) :
          /\ i < j /\ j < k
          /\ ml_log[i] = [call |-> "get", path |-> "", index |-> 0, ret |-> "10"]
          /\ ml_log[j] = [call |-> "set_file", path |-> "b", index |-> 0, ret |-> "()"]
          /\ ml_log[k] = [call |-> "get", path |-> "", index |-> 1, ret |-> "11"]

\* ========================================================================
\* Claims about the renamer's scopes (under SpecScopes)
\* ========================================================================

\* How many of the first j calls are calls of f.
CallsOf(calls, f, j) == Cardinality({i \in 1..j : calls[i] = f})

\* The calls nest: a scope is dropped only after it was added, and every
\* scope added is dropped.
Balanced(calls) ==
    /\ \A j \in 1..Len(calls) : CallsOf(calls, "drop_scope", j) <= CallsOf(calls, "add_scope", j)
    /\ CallsOf(calls, "drop_scope", Len(calls)) = CallsOf(calls, "add_scope", Len(calls))

RECURSIVE Regions(_)
\* The lexical regions of a declaration or statement: the parameters and the
\* body of a function, each compound statement and each for statement.
Regions(c) ==
    CASE c.k = "Function" -> 1 + (IF c.has_body THEN Regions(c.body) ELSE 0)
      [] c.k = "Compound" ->
            IF c.stmts = <<>> THEN 1
            ELSE Regions(Head(c.stmts)) + Regions(Compound(Tail(c.stmts)))
      [] c.k = "ForLoop" ->
            1 + (IF c.init = None THEN 0 ELSE Regions(c.init)) + Regions(c.body)
      [] c.k = "If" ->
            Regions(c.true_variant)
            + (IF c.false_variant = None THEN 0 ELSE Regions(c.false_variant))
      [] c.k \in {"While", "DoWhile"} -> Regions(c.body)
      [] OTHER -> 0

\* C27: in a translation that does not fail the add_scope and drop_scope
\* calls nest, one pair for each lexical region; the renamer is as deep
\* after a statement or declaration as before, its outer scopes are
\* untouched, and only a declaration statement leaves a name bound, in the
\* scope it stands in.
C27_ScopesNestAndBalance ==
    sc_pc = "done" /\ ~sc_out.failed =>
        LET before == sc_renamer.scopes
            after == sc_out.r.scopes
            calls == sc_out.r.calls
        IN /\ Balanced(calls)
           /\ CallsOf(calls, "add_scope", Len(calls)) = Regions(sc_src)
           /\ Len(after) = Len(before)
           /\ \A j \in 1..(Len(before) - 1) : after[j] = before[j]
           /\ sc_src.k # "Decls" => after = before /\ Visible(sc_out.r) = Visible(sc_renamer)
           /\ before[Len(before)] \subseteq after[Len(after)]

C27_Witness ==
    /\ sc_pc = "done" /\ ~sc_out.failed
    /\ sc_src.k = "Function" /\ sc_src.parameters = <<"x", "t">>
    /\ Len(sc_out.r.calls) >= 10
    /\ "i" \notin Visible(sc_out.r)

\* ========================================================================
\* Claims about the instrumentation plugin (under SpecPlugin)
\* ========================================================================

\* The blocks the folder put in place of calls of hooked fns: the bodies
\* folded hold no block of their own.
Replacements ==
    {b \in UNION {Range(Nodes(pl_out[j].out)) : j \in 1..Len(pl_out)} : b.k = "Block"}

\* The replacement is { let ret = <call>; <hook call>; ret }: the call of the
\* hooked fn once, the call of the runtime hook after it with one value more
\* than the call has arguments, and the call's value as the block's.
HookedCallWrapped(b) ==
    /\ Len(b.stmts) = 3
    /\ b.stmts[1].k = "Local" /\ b.stmts[1].name = "ret"
    /\ b.stmts[1].init.k = "Call" /\ b.stmts[1].init.f.k = "Path"
    /\ b.stmts[1].init.f.name \in HOOKED_FUNCTIONS
    /\ b.stmts[2].k = "Semi" /\ b.stmts[2].e.k = "Call"
    /\ b.stmts[2].e.f =
        path_segments_expr(<<"c2rust_analysis_rt", b.stmts[1].init.f.name>>)
    /\ Len(b.stmts[2].e.args) = Len(b.stmts[1].init.args) + 1
    /\ b.stmts[3] = expr_stmt(path_expr("ret"))

\* The calls an expression performs when it is evaluated.
CallsIn(e) == SelectSeq(Nodes(e), LAMBDA x : x.k = "Call")

\* C29: the block put in place of a call of a hooked fn performs the call
\* once, then the hook call, then yields the call's value, and evaluates every
\* argument expression of the call once: the hook call's arguments perform no
\* call of their own.
C29_ArgumentsEvaluatedOnce ==
    \A b \in Replacements :
        /\ HookedCallWrapped(b)
        /\ CallsIn(b.stmts[2].e) = <<b.stmts[2].e>>

\* ========================================================================
\* Claims about ownership_annotate (under SpecAnnotate)
\* ========================================================================

\* The items of the crate and the items nested in them; the struct fields.
AllItems(k) == UNION {{k[n]} \cup Range(k[n].items) : n \in 1..Len(k)}
AllFields(k) == UNION {Range(i.fields) : i \in AllItems(k)}
Annotated(k) ==
    {i \in AllItems(k) : i.kind \in {"Static", "Const", "Fn"}} \cup AllFields(k)
Before(x) == CHOOSE y \in AllItems(an_src) \cup AllFields(an_src) : y.id = x.id
IsOwnershipAttr(a) ==
    a.name \in {"ownership_mono", "ownership_constraints", "ownership_static"}

\* C30: for a fixed analysis result a second run of ownership_annotate leaves
\* the crate as the first run made it; a run keeps the other attributes of a
\* marked static, const, fn or struct field in order, drops every ownership
\* attribute it carried and appends freshly built ones; it leaves the
\* attributes of every unmarked item and field as they were.
C30_AnnotateIdempotent ==
    /\ an_runs >= 2 => an_krate = an_once
    /\ an_runs >= 1 =>
        \A x \in AllItems(an_krate) \cup AllFields(an_krate) :
            LET old == Before(x).attrs
                kept == SelectSeq(old, LAMBDA a : ~IsOwnershipAttr(a))
            IN IF x.marked /\ x \in Annotated(an_krate)
               THEN /\ Len(x.attrs) >= Len(kept)
                    /\ SubSeq(x.attrs, 1, Len(kept)) = kept
                    /\ \A j \in (Len(kept) + 1)..Len(x.attrs) :
                        IsOwnershipAttr(x.attrs[j]) /\ x.attrs[j] \notin Range(old)
               ELSE x.attrs = old

\* Two runs over a crate with a marked fn that carried stale ownership
\* attributes and got new ones, beside an unmarked item that carries some.
C30_Witness ==
    /\ an_runs = 2
    /\ \E x \in AllItems(an_krate) :
        /\ x.marked /\ x.kind = "Fn"
        /\ \E a \in Range(Before(x).attrs) : IsOwnershipAttr(a)
        /\ \E a \in Range(x.attrs) : a.name = "ownership_mono"
    /\ \E x \in AllItems(an_krate) :
        ~x.marked /\ \E a \in Range(x.attrs) : IsOwnershipAttr(a)

====
